---- MODULE Spec2Model ----
(***************************************************************************)
(* Model of the SES email forwarder (src/index.mjs): the handler's promise *)
(* chain (parseEvent, transformRecipients, fetchMessage, processMessage,   *)
(* sendMessage), the recipient resolution and the header rewrite.          *)
(*                                                                         *)
(* Text (addresses, header blocks, messages) is a sequence of one-character *)
(* strings, so that lower-casing, slicing and the regular expressions of   *)
(* the source are computed character by character.  A JavaScript object is *)
(* a record; a property whose value is undefined is absent from DOMAIN.    *)
(* The callback is the Lambda completion callback: it returns undefined.   *)
(***************************************************************************)
EXTENDS Integers, Sequences, FiniteSets, TLC

VARIABLES
  config,      \* data.config: the configuration object of the run
  steps,       \* the step list handed to Promise.series
  s3Object,    \* text of the object the store holds under the message key
  data,        \* the data bundle threaded through the steps
  idx,         \* index in steps of the step the chain has reached
  pc,          \* position of the run in the chain
  value,       \* value the chain carries to the next step: "data" or "undefined"
  err,         \* message of the rejection the chain carries, "" when none
  invoked,     \* steps invoked so far, in order
  tierUsed,    \* rule tier taken for each original recipient by forEach
  newRecipients, \* newRecipients of transformRecipients when its loop ended
  calls,       \* external calls issued so far (store copy, store get, send)
  replies,     \* outcomes the collaborators returned so far
  logs,        \* data.log invocations so far
  cb,          \* invocations of the completion callback so far
  other        \* context of a second run of handler that is suspended, if any

vars == <<config, steps, s3Object, data, idx, pc, value, err, invoked,
          tierUsed, newRecipients, calls, replies, logs, cb, other>>

----------------------------------------------------------------------------
(* Bounds of the model *)

MaxRecipients == 2

----------------------------------------------------------------------------
(* Generic helpers: objects and text *)

Put(obj, k, v) == [x \in DOMAIN obj \cup {k} |-> IF x = k THEN v ELSE obj[x]]

\* whether obj has an own property k
Has(obj, k) == k \in DOMAIN obj

\* the name hasOwnProperty as a property of an event or of a record, and as
\* a key of a rule table
MethodName == "hasOwnProperty"

MethodKey ==
  <<"h", "a", "s", "O", "w", "n", "P", "r", "o", "p", "e", "r", "t", "y">>

\* obj.hasOwnProperty(k) as the source calls it, a method read from obj
\* itself: an own property named method hides Object.prototype.hasOwnProperty
\* and, being a value read from JSON and no function, makes the call throw a
\* TypeError
hasOwnProperty(obj, k, method) ==
  IF Has(obj, method) THEN "throws"
  ELSE IF Has(obj, k) THEN "true"
  ELSE "false"

SeqsUpTo(S, n) == UNION {[1..m -> S] : m \in 0..n}

\* String.prototype.lastIndexOf (1-based; 0 when absent, the source's -1)
lastIndexOf(s, c) ==
  IF \E i \in 1..Len(s) : s[i] = c
    THEN CHOOSE i \in 1..Len(s) :
           s[i] = c /\ \A j \in (i + 1)..Len(s) : s[j] # c
    ELSE 0

\* the letters String.prototype.toLowerCase changes, among the characters a
\* string of this module can hold, with the lower-case form of each at the
\* same position of LowerCase (Unicode 17, simple and unconditional
\* mappings; each form is one character).  A lower-case form that no string
\* of the module can hold is written by its code point, as in "U+0253": it
\* differs from every character of a text and of a rule key
UpperCase ==
  <<"A", "B", "C", "D", "E", "F", "G", "H", "I", "J", "K", "L", "M", "N",
    "O", "P", "Q", "R", "S", "T", "U", "V", "W", "X", "Y", "Z", "À", "Á",
    "Â", "Ã", "Ä", "Å", "Æ", "Ç", "È", "É", "Ê", "Ë", "Ì", "Í", "Î", "Ï",
    "Ð", "Ñ", "Ò", "Ó", "Ô", "Õ", "Ö", "Ø", "Ù", "Ú", "Û", "Ü", "Ý", "Þ",
    "Ɓ", "Ƃ", "Ƅ", "Ɔ", "Ƈ", "Ɖ", "Ɗ", "Ƌ", "Ǝ", "Ə", "Ɛ", "Ƒ", "Ɠ", "Ɣ",
    "Ɩ", "Ɨ", "Ƙ", "Ɯ", "Ɲ", "Ɵ", "Ơ", "Ƣ", "Ƥ", "Ʀ", "Ƨ", "Ʃ", "Ƭ", "Ʈ",
    "Ư", "Ʊ", "Ʋ", "Ƴ", "Ƶ", "Ʒ", "Ƹ", "Ƽ", "Ǆ", "ǅ", "Ǉ", "ǈ", "Ǌ", "ǋ",
    "Ǎ", "Ǐ", "Ǒ", "Ǔ", "Ǖ", "Ǘ", "Ǚ", "Ǜ", "Ǟ", "Ǡ", "Ǣ", "Ǥ", "Ǧ", "Ǩ",
    "Ǫ", "Ǭ", "Ǯ", "Ǳ", "ǲ", "Ǵ", "Ƕ", "Ƿ", "Ǹ", "Ǻ", "Ǽ", "Ǿ", "Ά", "Έ",
    "Ή", "Ί", "Ό", "Ύ", "Ώ", "Α", "Β", "Γ", "Δ", "Ε", "Ζ", "Η", "Θ", "Ι",
    "Κ", "Λ", "Μ", "Ν", "Ξ", "Ο", "Π", "Ρ", "Σ", "Τ", "Υ", "Φ", "Χ", "Ψ",
    "Ω", "Ϊ", "Ϋ", "Ϗ", "Ϙ", "Ϛ", "Ϝ", "Ϟ", "Ϡ", "Ϣ", "Ϥ", "Ϧ", "Ϩ", "Ϫ",
    "Ϭ", "Ϯ", "ϴ", "Ϸ", "Ϲ", "Ϻ", "Ͻ", "Ͼ", "Ͽ", "Ҁ", "Ҋ", "Ҍ", "Ҏ", "Ґ",
    "Ғ", "Ҕ", "Җ", "Ҙ", "Қ", "Ҝ", "Ҟ", "Ҡ", "Ң", "Ҥ", "Ҧ", "Ҩ", "Ҫ", "Ҭ",
    "Ү", "Ұ", "Ҳ", "Ҵ", "Ҷ", "Ҹ", "Һ", "Ҽ", "Ҿ", "Ӏ", "Ӂ", "Ӄ", "Ӆ", "Ӈ",
    "Ӊ", "Ӌ", "Ӎ", "Ӑ", "Ӓ", "Ӕ", "Ӗ", "Ә", "Ӛ", "Ӝ", "Ӟ", "Ӡ", "Ӣ", "Ӥ",
    "Ӧ", "Ө", "Ӫ", "Ӭ", "Ӯ", "Ӱ", "Ӳ", "Ӵ", "Ӷ", "Ӹ", "Ӻ", "Ӽ", "Ӿ", "Ⴀ",
    "Ⴁ", "Ⴂ", "Ⴃ", "Ⴄ", "Ⴅ", "Ⴆ", "Ⴇ", "Ⴈ", "Ⴉ", "Ⴊ", "Ⴋ", "Ⴌ", "Ⴍ", "Ⴎ",
    "Ⴏ", "Ⴐ", "Ⴑ", "Ⴒ", "Ⴓ", "Ⴔ", "Ⴕ", "Ⴖ", "Ⴗ", "Ⴘ", "Ⴙ", "Ⴚ", "Ⴛ", "Ⴜ",
    "Ⴝ", "Ⴞ", "Ⴟ", "Ⴠ", "Ⴡ", "Ⴢ", "Ⴣ", "Ⴤ", "Ⴥ", "Ⴧ", "Ⴭ", "Ꭰ", "Ꭱ", "Ꭲ",
    "Ꭳ", "Ꭴ", "Ꭵ", "Ꭶ", "Ꭷ", "Ꭸ", "Ꭹ", "Ꭺ", "Ꭻ", "Ꭼ", "Ꭽ", "Ꭾ", "Ꭿ", "Ꮀ",
    "Ꮁ", "Ꮂ", "Ꮃ", "Ꮄ", "Ꮅ", "Ꮆ", "Ꮇ", "Ꮈ", "Ꮉ", "Ꮊ", "Ꮋ", "Ꮌ", "Ꮍ", "Ꮎ",
    "Ꮏ", "Ꮐ", "Ꮑ", "Ꮒ", "Ꮓ", "Ꮔ", "Ꮕ", "Ꮖ", "Ꮗ", "Ꮘ", "Ꮙ", "Ꮚ", "Ꮛ", "Ꮜ",
    "Ꮝ", "Ꮞ", "Ꮟ", "Ꮠ", "Ꮡ", "Ꮢ", "Ꮣ", "Ꮤ", "Ꮥ", "Ꮦ", "Ꮧ", "Ꮨ", "Ꮩ", "Ꮪ",
    "Ꮫ", "Ꮬ", "Ꮭ", "Ꮮ", "Ꮯ", "Ꮰ", "Ꮱ", "Ꮲ", "Ꮳ", "Ꮴ", "Ꮵ", "Ꮶ", "Ꮷ", "Ꮸ",
    "Ꮹ", "Ꮺ", "Ꮻ", "Ꮼ", "Ꮽ", "Ꮾ", "Ꮿ", "Ᏸ", "Ᏹ", "Ᏺ", "Ᏻ", "Ᏼ", "Ᏽ", "Ᲊ",
    "Ა", "Ბ", "Გ", "Დ", "Ე", "Ვ", "Ზ", "Თ", "Ი", "Კ", "Ლ", "Მ", "Ნ", "Ო",
    "Პ", "Ჟ", "Რ", "Ს", "Ტ", "Უ", "Ფ", "Ქ", "Ღ", "Ყ", "Შ", "Ჩ", "Ც", "Ძ",
    "Წ", "Ჭ", "Ხ", "Ჯ", "Ჰ", "Ჱ", "Ჲ", "Ჳ", "Ჴ", "Ჵ", "Ჶ", "Ჷ", "Ჸ", "Ჹ",
    "Ჺ", "Ჽ", "Ჾ", "Ჿ", "Ẁ", "Ẃ", "Ẅ", "Ẇ", "Ẉ", "Ẋ", "Ẍ", "Ẏ", "Ẑ", "Ẓ",
    "Ẕ", "ẞ", "Ạ", "Ả", "Ấ", "Ầ", "Ẩ", "Ẫ", "Ậ", "Ắ", "Ằ", "Ẳ", "Ẵ", "Ặ",
    "Ẹ", "Ẻ", "Ẽ", "Ế", "Ề", "Ể", "Ễ", "Ệ", "Ỉ", "Ị", "Ọ", "Ỏ", "Ố", "Ồ",
    "Ổ", "Ỗ", "Ộ", "Ớ", "Ờ", "Ở", "Ỡ", "Ợ", "Ụ", "Ủ", "Ứ", "Ừ", "Ử", "Ữ",
    "Ự", "Ỳ", "Ỵ", "Ỷ", "Ỹ", "Ỻ", "Ỽ", "Ỿ", "ᾈ", "ᾉ", "ᾊ", "ᾋ", "ᾌ", "ᾍ",
    "ᾎ", "ᾏ", "ᾘ", "ᾙ", "ᾚ", "ᾛ", "ᾜ", "ᾝ", "ᾞ", "ᾟ", "ᾨ", "ᾩ", "ᾪ", "ᾫ",
    "ᾬ", "ᾭ", "ᾮ", "ᾯ", "Ᾰ", "Ᾱ", "Ὰ", "Ά", "ᾼ", "Ὲ", "Έ", "Ὴ", "Ή", "ῌ",
    "Ῐ", "Ῑ", "Ὶ", "Ί", "Ῠ", "Ῡ", "Ὺ", "Ύ", "Ῥ", "Ὸ", "Ό", "Ὼ", "Ώ", "ῼ",
    "Ↄ", "Ⓐ", "Ⓑ", "Ⓒ", "Ⓓ", "Ⓔ", "Ⓕ", "Ⓖ", "Ⓗ", "Ⓘ", "Ⓙ", "Ⓚ", "Ⓛ", "Ⓜ",
    "Ⓝ", "Ⓞ", "Ⓟ", "Ⓠ", "Ⓡ", "Ⓢ", "Ⓣ", "Ⓤ", "Ⓥ", "Ⓦ", "Ⓧ", "Ⓨ", "Ⓩ", "Ⲁ",
    "Ⲃ", "Ⲅ", "Ⲇ", "Ⲉ", "Ⲋ", "Ⲍ", "Ⲏ", "Ⲑ", "Ⲓ", "Ⲕ", "Ⲗ", "Ⲙ", "Ⲛ", "Ⲝ",
    "Ⲟ", "Ⲡ", "Ⲣ", "Ⲥ", "Ⲧ", "Ⲩ", "Ⲫ", "Ⲭ", "Ⲯ", "Ⲱ", "Ⲳ", "Ⲵ", "Ⲷ", "Ⲹ",
    "Ⲻ", "Ⲽ", "Ⲿ", "Ⳁ", "Ⳃ", "Ⳅ", "Ⳇ", "Ⳉ", "Ⳋ", "Ⳍ", "Ⳏ", "Ⳑ", "Ⳓ", "Ⳕ",
    "Ⳗ", "Ⳙ", "Ⳛ", "Ⳝ", "Ⳟ", "Ⳡ", "Ⳣ", "Ⳬ", "Ⳮ", "Ⳳ", "Ꚁ", "Ꚃ", "Ꚅ", "Ꚇ",
    "Ꚉ", "Ꚋ", "Ꚍ", "Ꚏ", "Ꚑ", "Ꚓ", "Ꚕ", "Ꚗ", "Ꚙ", "Ꚛ", "Ꞁ", "Ꞃ", "Ꞅ", "Ꞇ",
    "Ꞌ", "Ɥ", "Ꞑ", "Ꞓ", "Ꞗ", "Ꞙ", "Ꞛ", "Ꞝ", "Ꞟ", "Ꞡ", "Ꞣ", "Ꞥ", "Ꞧ", "Ꞩ",
    "Ɦ", "Ɜ", "Ɡ", "Ɬ", "Ɪ", "Ʞ", "Ʇ", "Ʝ", "Ꭓ", "Ꞵ", "Ꞷ", "Ꞹ", "Ꞻ", "Ꞽ",
    "Ꞿ", "Ꟁ", "Ꟃ", "Ꞔ", "Ʂ", "Ᶎ", "Ꟈ", "Ꟊ", "Ɤ", "Ꟍ", "꟎", "Ꟑ", "꟒", "꟔",
    "Ꟗ", "Ꟙ", "Ꟛ", "Ƛ", "Ꟶ">>

LowerCase ==
  <<"a", "b", "c", "d", "e", "f", "g", "h", "i", "j", "k", "l", "m", "n",
    "o", "p", "q", "r", "s", "t", "u", "v", "w", "x", "y", "z", "à", "á",
    "â", "ã", "ä", "å", "æ", "ç", "è", "é", "ê", "ë", "ì", "í", "î", "ï",
    "ð", "ñ", "ò", "ó", "ô", "õ", "ö", "ø", "ù", "ú", "û", "ü", "ý", "þ",
    "U+0253", "ƃ", "ƅ", "U+0254", "ƈ", "U+0256", "U+0257", "ƌ", "ǝ",
    "U+0259", "U+025B", "ƒ", "U+0260", "U+0263", "U+0269", "U+0268", "ƙ",
    "U+026F", "U+0272", "U+0275", "ơ", "ƣ", "ƥ", "ʀ", "ƨ", "ʃ", "ƭ", "ʈ",
    "ư", "ʊ", "ʋ", "ƴ", "ƶ", "ʒ", "ƹ", "ƽ", "ǆ", "ǆ", "ǉ", "ǉ", "ǌ", "ǌ",
    "ǎ", "ǐ", "ǒ", "ǔ", "ǖ", "ǘ", "ǚ", "ǜ", "ǟ", "ǡ", "ǣ", "ǥ", "ǧ", "ǩ",
    "ǫ", "ǭ", "ǯ", "ǳ", "ǳ", "ǵ", "ƕ", "ƿ", "ǹ", "ǻ", "ǽ", "ǿ", "ά", "έ",
    "ή", "ί", "ό", "ύ", "ώ", "α", "β", "γ", "δ", "ε", "ζ", "η", "θ", "ι",
    "κ", "λ", "μ", "ν", "ξ", "ο", "π", "ρ", "σ", "τ", "υ", "φ", "χ", "ψ",
    "ω", "ϊ", "ϋ", "ϗ", "ϙ", "ϛ", "ϝ", "ϟ", "ϡ", "ϣ", "ϥ", "ϧ", "ϩ", "ϫ",
    "ϭ", "ϯ", "θ", "ϸ", "ϲ", "ϻ", "U+037B", "U+037C", "U+037D", "ҁ", "ҋ",
    "ҍ", "ҏ", "ґ", "ғ", "ҕ", "җ", "ҙ", "қ", "ҝ", "ҟ", "ҡ", "ң", "ҥ", "ҧ",
    "ҩ", "ҫ", "ҭ", "ү", "ұ", "ҳ", "ҵ", "ҷ", "ҹ", "һ", "ҽ", "ҿ", "ӏ", "ӂ",
    "ӄ", "ӆ", "ӈ", "ӊ", "ӌ", "ӎ", "ӑ", "ӓ", "ӕ", "ӗ", "ә", "ӛ", "ӝ", "ӟ",
    "ӡ", "ӣ", "ӥ", "ӧ", "ө", "ӫ", "ӭ", "ӯ", "ӱ", "ӳ", "ӵ", "ӷ", "ӹ", "ӻ",
    "ӽ", "ӿ", "U+2D00", "U+2D01", "U+2D02", "U+2D03", "U+2D04", "U+2D05",
    "U+2D06", "U+2D07", "U+2D08", "U+2D09", "U+2D0A", "U+2D0B", "U+2D0C",
    "U+2D0D", "U+2D0E", "U+2D0F", "U+2D10", "U+2D11", "U+2D12", "U+2D13",
    "U+2D14", "U+2D15", "U+2D16", "U+2D17", "U+2D18", "U+2D19", "U+2D1A",
    "U+2D1B", "U+2D1C", "U+2D1D", "U+2D1E", "U+2D1F", "U+2D20", "U+2D21",
    "U+2D22", "U+2D23", "U+2D24", "U+2D25", "U+2D27", "U+2D2D", "U+AB70",
    "U+AB71", "U+AB72", "U+AB73", "U+AB74", "U+AB75", "U+AB76", "U+AB77",
    "U+AB78", "U+AB79", "U+AB7A", "U+AB7B", "U+AB7C", "U+AB7D", "U+AB7E",
    "U+AB7F", "ꮀ", "ꮁ", "ꮂ", "ꮃ", "ꮄ", "ꮅ", "ꮆ", "ꮇ", "ꮈ", "ꮉ", "ꮊ", "ꮋ",
    "ꮌ", "ꮍ", "ꮎ", "ꮏ", "ꮐ", "ꮑ", "ꮒ", "ꮓ", "ꮔ", "ꮕ", "ꮖ", "ꮗ", "ꮘ", "ꮙ",
    "ꮚ", "ꮛ", "ꮜ", "ꮝ", "ꮞ", "ꮟ", "ꮠ", "ꮡ", "ꮢ", "ꮣ", "ꮤ", "ꮥ", "ꮦ", "ꮧ",
    "ꮨ", "ꮩ", "ꮪ", "ꮫ", "ꮬ", "ꮭ", "ꮮ", "ꮯ", "ꮰ", "ꮱ", "ꮲ", "ꮳ", "ꮴ", "ꮵ",
    "ꮶ", "ꮷ", "ꮸ", "ꮹ", "ꮺ", "ꮻ", "ꮼ", "ꮽ", "ꮾ", "ꮿ", "ᏸ", "ᏹ", "ᏺ", "ᏻ",
    "ᏼ", "ᏽ", "ᲊ", "ა", "ბ", "გ", "დ", "ე", "ვ", "ზ", "თ", "ი", "კ", "ლ",
    "მ", "ნ", "ო", "პ", "ჟ", "რ", "ს", "ტ", "უ", "ფ", "ქ", "ღ", "ყ", "შ",
    "ჩ", "ც", "ძ", "წ", "ჭ", "ხ", "ჯ", "ჰ", "ჱ", "ჲ", "ჳ", "ჴ", "ჵ", "ჶ",
    "ჷ", "ჸ", "ჹ", "ჺ", "ჽ", "ჾ", "ჿ", "ẁ", "ẃ", "ẅ", "ẇ", "ẉ", "ẋ", "ẍ",
    "ẏ", "ẑ", "ẓ", "ẕ", "ß", "ạ", "ả", "ấ", "ầ", "ẩ", "ẫ", "ậ", "ắ", "ằ",
    "ẳ", "ẵ", "ặ", "ẹ", "ẻ", "ẽ", "ế", "ề", "ể", "ễ", "ệ", "ỉ", "ị", "ọ",
    "ỏ", "ố", "ồ", "ổ", "ỗ", "ộ", "ớ", "ờ", "ở", "ỡ", "ợ", "ụ", "ủ", "ứ",
    "ừ", "ử", "ữ", "ự", "ỳ", "ỵ", "ỷ", "ỹ", "ỻ", "ỽ", "ỿ", "ᾀ", "ᾁ", "ᾂ",
    "ᾃ", "ᾄ", "ᾅ", "ᾆ", "ᾇ", "ᾐ", "ᾑ", "ᾒ", "ᾓ", "ᾔ", "ᾕ", "ᾖ", "ᾗ", "ᾠ",
    "ᾡ", "ᾢ", "ᾣ", "ᾤ", "ᾥ", "ᾦ", "ᾧ", "ᾰ", "ᾱ", "U+1F70", "U+1F71", "ᾳ",
    "U+1F72", "U+1F73", "U+1F74", "U+1F75", "ῃ", "ῐ", "ῑ", "U+1F76",
    "U+1F77", "ῠ", "ῡ", "U+1F7A", "U+1F7B", "ῥ", "U+1F78", "U+1F79",
    "U+1F7C", "U+1F7D", "ῳ", "ↄ", "ⓐ", "ⓑ", "ⓒ", "ⓓ", "ⓔ", "ⓕ", "ⓖ", "ⓗ",
    "ⓘ", "ⓙ", "ⓚ", "ⓛ", "ⓜ", "ⓝ", "ⓞ", "ⓟ", "ⓠ", "ⓡ", "ⓢ", "ⓣ", "ⓤ", "ⓥ",
    "ⓦ", "ⓧ", "ⓨ", "ⓩ", "ⲁ", "ⲃ", "ⲅ", "ⲇ", "ⲉ", "ⲋ", "ⲍ", "ⲏ", "ⲑ", "ⲓ",
    "ⲕ", "ⲗ", "ⲙ", "ⲛ", "ⲝ", "ⲟ", "ⲡ", "ⲣ", "ⲥ", "ⲧ", "ⲩ", "ⲫ", "ⲭ", "ⲯ",
    "ⲱ", "ⲳ", "ⲵ", "ⲷ", "ⲹ", "ⲻ", "ⲽ", "ⲿ", "ⳁ", "ⳃ", "ⳅ", "ⳇ", "ⳉ", "ⳋ",
    "ⳍ", "ⳏ", "ⳑ", "ⳓ", "ⳕ", "ⳗ", "ⳙ", "ⳛ", "ⳝ", "ⳟ", "ⳡ", "ⳣ", "ⳬ", "ⳮ",
    "ⳳ", "ꚁ", "ꚃ", "ꚅ", "ꚇ", "ꚉ", "ꚋ", "ꚍ", "ꚏ", "ꚑ", "ꚓ", "ꚕ", "ꚗ", "ꚙ",
    "ꚛ", "ꞁ", "ꞃ", "ꞅ", "ꞇ", "ꞌ", "U+0265", "ꞑ", "ꞓ", "ꞗ", "ꞙ", "ꞛ", "ꞝ",
    "ꞟ", "ꞡ", "ꞣ", "ꞥ", "ꞧ", "ꞩ", "U+0266", "U+025C", "U+0261", "U+026C",
    "U+026A", "ʞ", "ʇ", "ʝ", "U+AB53", "ꞵ", "ꞷ", "ꞹ", "ꞻ", "ꞽ", "ꞿ", "ꟁ",
    "ꟃ", "ꞔ", "ʂ", "ᶎ", "ꟈ", "ꟊ", "U+0264", "ꟍ", "꟏", "ꟑ", "ꟓ", "ꟕ", "ꟗ",
    "ꟙ", "ꟛ", "ƛ", "ꟶ">>

Letters == {UpperCase[i] : i \in DOMAIN UpperCase}

\* the lower-case form of one character.  The i flag compares with the
\* literals of the source, all ASCII, which no other character equals in
\* either case
LowerChar(c) ==
  IF c \in Letters
    THEN LowerCase[CHOOSE i \in DOMAIN UpperCase : UpperCase[i] = c]
    ELSE c

\* the characters the Final_Sigma condition of toLowerCase skips: the
\* case-ignorable characters
CaseIgnorable ==
  {"'", ".", ":", "^", "¨", "­", "¯", "´", "·", "¸", "ʰ", "ʱ", "ʲ", "ʳ", "ʴ",
    "ʵ", "ʶ", "ʷ", "ʸ", "ʹ", "ʺ", "ʻ", "ʼ", "ʽ", "ʾ", "ʿ", "ˀ", "ˁ", "˂",
    "˃", "˄", "˅", "ˆ", "ˇ", "ˈ", "ˉ", "ˊ", "ˋ", "ˌ", "ˍ", "ˎ", "ˏ", "ː",
    "ˑ", "˒", "˓", "˔", "˕", "˖", "˗", "˘", "˙", "˚", "˛", "˜", "˝", "˞",
    "˟", "ˠ", "ˡ", "ˢ", "ˣ", "ˤ", "˥", "˦", "˧", "˨", "˩", "˪", "˫", "ˬ",
    "˭", "ˮ", "˯", "˰", "˱", "˲", "˳", "˴", "˵", "˶", "˷", "˸", "˹", "˺",
    "˻", "˼", "˽", "˾", "˿", "΄", "΅", "·", "҃", "҄", "҅", "҆", "҇", "҈",
    "҉", "֑", "֒", "֓", "֔", "֕", "֖", "֗", "֘", "֙", "֚", "֛", "֜", "֝",
    "֞", "֟", "֠", "֡", "֢", "֣", "֤", "֥", "֦", "֧", "֨", "֩", "֪", "֫",
    "֬", "֭", "֮", "֯", "ְ", "ֱ", "ֲ", "ֳ", "ִ", "ֵ", "ֶ", "ַ", "ָ", "ֹ",
    "ֺ", "ֻ", "ּ", "ֽ", "ֿ", "ׁ", "ׂ", "ׄ", "ׅ", "ׇ", "״", "ۖ", "ۗ", "ۘ",
    "ۙ", "ۚ", "ۛ", "ۜ", "۝", "۟", "۠", "ۡ", "ۢ", "ۣ", "ۤ", "ۥ", "ۦ", "ۧ",
    "ۨ", "۪", "۫", "۬", "ۭ", "ަ", "ާ", "ި", "ީ", "ު", "ޫ", "ެ", "ޭ", "ޮ",
    "ޯ", "ް", "߫", "߬", "߭", "߮", "߯", "߰", "߱", "߲", "߳", "ߴ", "ߵ", "ߺ",
    "߽", "࢈", "࢐", "࢑", "ࢗ", "࢘", "࢙", "࢚", "࢛", "࢜", "࢝", "࢞", "࢟", "ࣉ",
    "࣊", "࣋", "࣌", "࣍", "࣎", "࣏", "࣐", "࣑", "࣒", "࣓", "ࣔ", "ࣕ", "ࣖ", "ࣗ",
    "ࣘ", "ࣙ", "ࣚ", "ࣛ", "ࣜ", "ࣝ", "ࣞ", "ࣟ", "࣠", "࣡", "࣢", "ࣣ", "ࣤ", "ࣥ",
    "ࣦ", "ࣧ", "ࣨ", "ࣩ", "࣪", "࣫", "࣬", "࣭", "࣮", "࣯", "ࣰ", "ࣱ", "ࣲ", "ࣳ",
    "ࣴ", "ࣵ", "ࣶ", "ࣷ", "ࣸ", "ࣹ", "ࣺ", "ࣻ", "ࣼ", "ࣽ", "ࣾ", "ࣿ", "ঁ", "়",
    "ু", "ূ", "ৃ", "ৄ", "্", "ৢ", "ৣ", "৾", "ઁ", "ં", "઼", "ુ", "ૂ", "ૃ",
    "ૄ", "ૅ", "ે", "ૈ", "્", "ૢ", "ૣ", "ૺ", "ૻ", "ૼ", "૽", "૾", "૿", "ஂ",
    "ீ", "்", "ಁ", "಼", "ಿ", "ೆ", "ೌ", "್", "ೢ", "ೣ", "ඁ", "්", "ි", "ී",
    "ු", "ූ", "ັ", "ິ", "ີ", "ຶ", "ື", "ຸ", "ູ", "຺", "ົ", "ຼ", "ໆ", "່",
    "້", "໊", "໋", "໌", "ໍ", "໎", "ྀ", "ཱྀ", "ྂ", "ྃ", "྄", "྆", "྇", "ྍ",
    "ྎ", "ྏ", "ྐ", "ྑ", "ྒ", "ྒྷ", "ྔ", "ྕ", "ྖ", "ྗ", "ྙ", "ྚ", "ྛ", "ྜ",
    "ྜྷ", "ྞ", "ྟ", "ྠ", "ྡ", "ྡྷ", "ྣ", "ྤ", "ྥ", "ྦ", "ྦྷ", "ྨ", "ྩ", "ྪ",
    "ྫ", "ྫྷ", "ྭ", "ྮ", "ྯ", "ྰ", "ྱ", "ྲ", "ླ", "ྴ", "ྵ", "ྶ", "ྷ", "ྸ",
    "ྐྵ", "ྺ", "ྻ", "ྼ", "࿆", "ႂ", "ႅ", "ႆ", "ႍ", "ႝ", "ჼ", "឴", "឵", "ិ",
    "ី", "ឹ", "ឺ", "ុ", "ូ", "ួ", "ំ", "៉", "៊", "់", "៌", "៍", "៎", "៏",
    "័", "៑", "្", "៓", "ៗ", "៝", "ᢅ", "ᢆ", "ᢩ", "ᪧ", "᪰", "᪱", "᪲", "᪳",
    "᪴", "᪵", "᪶", "᪷", "᪸", "᪹", "᪺", "᪻", "᪼", "᪽", "᪾", "ᪿ", "ᫀ", "᫁",
    "᫂", "᫃", "᫄", "᫅", "᫆", "᫇", "᫈", "᫉", "᫊", "᫋", "ᫌ", "ᫍ", "ᫎ", "᫏",
    "᫐", "᫑", "᫒", "᫓", "᫔", "᫕", "᫖", "᫗", "᫘", "᫙", "᫚", "᫛", "᫜", "᫝",
    "᫠", "᫡", "᫢", "᫣", "᫤", "᫥", "᫦", "᫧", "᫨", "᫩", "᫪", "᫫", "ᮀ", "ᮁ",
    "ᮢ", "ᮣ", "ᮤ", "ᮥ", "ᮨ", "ᮩ", "᮫", "ᮬ", "ᮭ", "᯦", "ᯨ", "ᯩ", "ᯭ", "ᯯ",
    "ᯰ", "ᯱ", "᳐", "᳑", "᳒", "᳔", "᳕", "᳖", "᳗", "᳘", "᳙", "᳚", "᳛", "᳜",
    "᳝", "᳞", "᳟", "᳠", "᳢", "᳣", "᳤", "᳥", "᳦", "᳧", "᳨", "᳭", "᳴", "᳸",
    "᳹", "ᶛ", "ᶜ", "ᶝ", "ᶞ", "ᶟ", "ᶠ", "ᶡ", "ᶢ", "ᶣ", "ᶤ", "ᶥ", "ᶦ", "ᶧ",
    "ᶨ", "ᶩ", "ᶪ", "ᶫ", "ᶬ", "ᶭ", "ᶮ", "ᶯ", "ᶰ", "ᶱ", "ᶲ", "ᶳ", "ᶴ", "ᶵ",
    "ᶶ", "ᶷ", "ᶸ", "ᶹ", "ᶺ", "ᶻ", "ᶼ", "ᶽ", "ᶾ", "ᶿ", "᷀", "᷁", "᷂", "᷃",
    "᷄", "᷅", "᷆", "᷇", "᷈", "᷉", "᷊", "᷋", "᷌", "᷍", "᷎", "᷏", "᷐", "᷑",
    "᷒", "ᷓ", "ᷔ", "ᷕ", "ᷖ", "ᷗ", "ᷘ", "ᷙ", "ᷚ", "ᷛ", "ᷜ", "ᷝ", "ᷞ", "ᷟ",
    "ᷠ", "ᷡ", "ᷢ", "ᷣ", "ᷤ", "ᷥ", "ᷦ", "ᷧ", "ᷨ", "ᷩ", "ᷪ", "ᷫ", "ᷬ", "ᷭ",
    "ᷮ", "ᷯ", "ᷰ", "ᷱ", "ᷲ", "ᷳ", "ᷴ", "᷵", "᷶", "᷷", "᷸", "᷹", "᷺", "᷻",
    "᷼", "᷽", "᷾", "᷿", "᾽", "᾿", "῀", "῁", "῍", "῎", "῏", "῝", "῞", "῟",
    "῭", "΅", "`", "´", "῾", "ₐ", "ₑ", "ₒ", "ₓ", "ₔ", "ₕ", "ₖ", "ₗ", "ₘ",
    "ₙ", "ₚ", "ₛ", "ₜ", "⃐", "⃑", "⃒", "⃓", "⃔", "⃕", "⃖", "⃗", "⃘", "⃙",
    "⃚", "⃛", "⃜", "⃝", "⃞", "⃟", "⃠", "⃡", "⃢", "⃣", "⃤", "⃥", "⃦", "⃧",
    "⃨", "⃩", "⃪", "⃫", "⃬", "⃭", "⃮", "⃯", "⃰", "⳯", "⳰", "⳱", "ⷠ", "ⷡ",
    "ⷢ", "ⷣ", "ⷤ", "ⷥ", "ⷦ", "ⷧ", "ⷨ", "ⷩ", "ⷪ", "ⷫ", "ⷬ", "ⷭ", "ⷮ", "ⷯ",
    "ⷰ", "ⷱ", "ⷲ", "ⷳ", "ⷴ", "ⷵ", "ⷶ", "ⷷ", "ⷸ", "ⷹ", "ⷺ", "ⷻ", "ⷼ", "ⷽ",
    "ⷾ", "ⷿ", "゙", "゚", "゛", "゜", "ゝ", "ゞ", "ー", "ヽ", "ヾ", "ꓸ", "ꓹ", "ꓺ",
    "ꓻ", "ꓼ", "ꓽ", "ꚜ", "ꚝ", "ꚞ", "ꚟ", "꛰", "꛱", "ꞈ", "꞉", "꞊", "꟱", "ꟲ",
    "ꟳ", "ꟴ", "ꟸ", "ꟹ", "꣄", "ꣅ", "꣠", "꣡", "꣢", "꣣", "꣤", "꣥", "꣦", "꣧",
    "꣨", "꣩", "꣪", "꣫", "꣬", "꣭", "꣮", "꣯", "꣰", "꣱", "ꣿ", "ꦀ", "ꦁ", "ꦂ",
    "꦳", "ꦶ", "ꦷ", "ꦸ", "ꦹ", "ꦼ", "ꦽ", "ꧏ", "ꧥ", "ꧦ", "ꪰ", "ꪲ", "ꪳ", "ꪴ",
    "ꪷ", "ꪸ", "ꪾ", "꪿", "꫁", "ꫝ", "ꫬ", "ꫭ", "ꫳ", "ꫴ", "꫶", "ꯥ", "ꯨ", "꯭",
    "﮲", "﮳", "﮴", "﮵", "﮶", "﮷", "﮸", "﮹", "﮺", "﮻", "﮼", "﮽", "﮾", "﮿",
    "﯀", "﯁", "﯂", "﻿", "ﾞ", "ﾟ", "￣", "￹", "￺", "￻"}

\* the cased letters that are not case-ignorable
CasedLetters ==
  {"A", "B", "C", "D", "E", "F", "G", "H", "I", "J", "K", "L", "M", "N", "O",
    "P", "Q", "R", "S", "T", "U", "V", "W", "X", "Y", "Z", "a", "b", "c",
    "d", "e", "f", "g", "h", "i", "j", "k", "l", "m", "n", "o", "p", "q",
    "r", "s", "t", "u", "v", "w", "x", "y", "z", "ª", "µ", "º", "À", "Á",
    "Â", "Ã", "Ä", "Å", "Æ", "Ç", "È", "É", "Ê", "Ë", "Ì", "Í", "Î", "Ï",
    "Ð", "Ñ", "Ò", "Ó", "Ô", "Õ", "Ö", "Ø", "Ù", "Ú", "Û", "Ü", "Ý", "Þ",
    "ß", "à", "á", "â", "ã", "ä", "å", "æ", "ç", "è", "é", "ê", "ë", "ì",
    "í", "î", "ï", "ð", "ñ", "ò", "ó", "ô", "õ", "ö", "ø", "ù", "ú", "û",
    "ü", "ý", "þ", "ÿ", "ƀ", "Ɓ", "Ƃ", "ƃ", "Ƅ", "ƅ", "Ɔ", "Ƈ", "ƈ", "Ɖ",
    "Ɗ", "Ƌ", "ƌ", "ƍ", "Ǝ", "Ə", "Ɛ", "Ƒ", "ƒ", "Ɠ", "Ɣ", "ƕ", "Ɩ", "Ɨ",
    "Ƙ", "ƙ", "ƚ", "ƛ", "Ɯ", "Ɲ", "ƞ", "Ɵ", "Ơ", "ơ", "Ƣ", "ƣ", "Ƥ", "ƥ",
    "Ʀ", "Ƨ", "ƨ", "Ʃ", "ƪ", "ƫ", "Ƭ", "ƭ", "Ʈ", "Ư", "ư", "Ʊ", "Ʋ", "Ƴ",
    "ƴ", "Ƶ", "ƶ", "Ʒ", "Ƹ", "ƹ", "ƺ", "Ƽ", "ƽ", "ƾ", "ƿ", "Ǆ", "ǅ", "ǆ",
    "Ǉ", "ǈ", "ǉ", "Ǌ", "ǋ", "ǌ", "Ǎ", "ǎ", "Ǐ", "ǐ", "Ǒ", "ǒ", "Ǔ", "ǔ",
    "Ǖ", "ǖ", "Ǘ", "ǘ", "Ǚ", "ǚ", "Ǜ", "ǜ", "ǝ", "Ǟ", "ǟ", "Ǡ", "ǡ", "Ǣ",
    "ǣ", "Ǥ", "ǥ", "Ǧ", "ǧ", "Ǩ", "ǩ", "Ǫ", "ǫ", "Ǭ", "ǭ", "Ǯ", "ǯ", "ǰ",
    "Ǳ", "ǲ", "ǳ", "Ǵ", "ǵ", "Ƕ", "Ƿ", "Ǹ", "ǹ", "Ǻ", "ǻ", "Ǽ", "ǽ", "Ǿ",
    "ǿ", "ʀ", "ʁ", "ʂ", "ʃ", "ʄ", "ʅ", "ʆ", "ʇ", "ʈ", "ʉ", "ʊ", "ʋ", "ʌ",
    "ʍ", "ʎ", "ʏ", "ʐ", "ʑ", "ʒ", "ʓ", "ʖ", "ʗ", "ʘ", "ʙ", "ʚ", "ʛ", "ʜ",
    "ʝ", "ʞ", "ʟ", "ʠ", "ʡ", "ʢ", "ʣ", "ʤ", "ʥ", "ʦ", "ʧ", "ʨ", "ʩ", "ʪ",
    "ʫ", "ʬ", "ʭ", "ʮ", "ʯ", "Ά", "Έ", "Ή", "Ί", "Ό", "Ύ", "Ώ", "ΐ", "Α",
    "Β", "Γ", "Δ", "Ε", "Ζ", "Η", "Θ", "Ι", "Κ", "Λ", "Μ", "Ν", "Ξ", "Ο",
    "Π", "Ρ", "Σ", "Τ", "Υ", "Φ", "Χ", "Ψ", "Ω", "Ϊ", "Ϋ", "ά", "έ", "ή",
    "ί", "ΰ", "α", "β", "γ", "δ", "ε", "ζ", "η", "θ", "ι", "κ", "λ", "μ",
    "ν", "ξ", "ο", "π", "ρ", "ς", "σ", "τ", "υ", "φ", "χ", "ψ", "ω", "ϊ",
    "ϋ", "ό", "ύ", "ώ", "Ϗ", "ϐ", "ϑ", "ϒ", "ϓ", "ϔ", "ϕ", "ϖ", "ϗ", "Ϙ",
    "ϙ", "Ϛ", "ϛ", "Ϝ", "ϝ", "Ϟ", "ϟ", "Ϡ", "ϡ", "Ϣ", "ϣ", "Ϥ", "ϥ", "Ϧ",
    "ϧ", "Ϩ", "ϩ", "Ϫ", "ϫ", "Ϭ", "ϭ", "Ϯ", "ϯ", "ϰ", "ϱ", "ϲ", "ϳ", "ϴ",
    "ϵ", "Ϸ", "ϸ", "Ϲ", "Ϻ", "ϻ", "ϼ", "Ͻ", "Ͼ", "Ͽ", "Ҁ", "ҁ", "Ҋ", "ҋ",
    "Ҍ", "ҍ", "Ҏ", "ҏ", "Ґ", "ґ", "Ғ", "ғ", "Ҕ", "ҕ", "Җ", "җ", "Ҙ", "ҙ",
    "Қ", "қ", "Ҝ", "ҝ", "Ҟ", "ҟ", "Ҡ", "ҡ", "Ң", "ң", "Ҥ", "ҥ", "Ҧ", "ҧ",
    "Ҩ", "ҩ", "Ҫ", "ҫ", "Ҭ", "ҭ", "Ү", "ү", "Ұ", "ұ", "Ҳ", "ҳ", "Ҵ", "ҵ",
    "Ҷ", "ҷ", "Ҹ", "ҹ", "Һ", "һ", "Ҽ", "ҽ", "Ҿ", "ҿ", "Ӏ", "Ӂ", "ӂ", "Ӄ",
    "ӄ", "Ӆ", "ӆ", "Ӈ", "ӈ", "Ӊ", "ӊ", "Ӌ", "ӌ", "Ӎ", "ӎ", "ӏ", "Ӑ", "ӑ",
    "Ӓ", "ӓ", "Ӕ", "ӕ", "Ӗ", "ӗ", "Ә", "ә", "Ӛ", "ӛ", "Ӝ", "ӝ", "Ӟ", "ӟ",
    "Ӡ", "ӡ", "Ӣ", "ӣ", "Ӥ", "ӥ", "Ӧ", "ӧ", "Ө", "ө", "Ӫ", "ӫ", "Ӭ", "ӭ",
    "Ӯ", "ӯ", "Ӱ", "ӱ", "Ӳ", "ӳ", "Ӵ", "ӵ", "Ӷ", "ӷ", "Ӹ", "ӹ", "Ӻ", "ӻ",
    "Ӽ", "ӽ", "Ӿ", "ӿ", "ր", "ց", "ւ", "փ", "ք", "օ", "ֆ", "և", "ֈ", "Ⴀ",
    "Ⴁ", "Ⴂ", "Ⴃ", "Ⴄ", "Ⴅ", "Ⴆ", "Ⴇ", "Ⴈ", "Ⴉ", "Ⴊ", "Ⴋ", "Ⴌ", "Ⴍ", "Ⴎ",
    "Ⴏ", "Ⴐ", "Ⴑ", "Ⴒ", "Ⴓ", "Ⴔ", "Ⴕ", "Ⴖ", "Ⴗ", "Ⴘ", "Ⴙ", "Ⴚ", "Ⴛ", "Ⴜ",
    "Ⴝ", "Ⴞ", "Ⴟ", "Ⴠ", "Ⴡ", "Ⴢ", "Ⴣ", "Ⴤ", "Ⴥ", "Ⴧ", "Ⴭ", "ა", "ბ", "გ",
    "დ", "ე", "ვ", "ზ", "თ", "ი", "კ", "ლ", "მ", "ნ", "ო", "პ", "ჟ", "რ",
    "ს", "ტ", "უ", "ფ", "ქ", "ღ", "ყ", "შ", "ჩ", "ც", "ძ", "წ", "ჭ", "ხ",
    "ჯ", "ჰ", "ჱ", "ჲ", "ჳ", "ჴ", "ჵ", "ჶ", "ჷ", "ჸ", "ჹ", "ჺ", "ჽ", "ჾ",
    "ჿ", "Ꭰ", "Ꭱ", "Ꭲ", "Ꭳ", "Ꭴ", "Ꭵ", "Ꭶ", "Ꭷ", "Ꭸ", "Ꭹ", "Ꭺ", "Ꭻ", "Ꭼ",
    "Ꭽ", "Ꭾ", "Ꭿ", "Ꮀ", "Ꮁ", "Ꮂ", "Ꮃ", "Ꮄ", "Ꮅ", "Ꮆ", "Ꮇ", "Ꮈ", "Ꮉ", "Ꮊ",
    "Ꮋ", "Ꮌ", "Ꮍ", "Ꮎ", "Ꮏ", "Ꮐ", "Ꮑ", "Ꮒ", "Ꮓ", "Ꮔ", "Ꮕ", "Ꮖ", "Ꮗ", "Ꮘ",
    "Ꮙ", "Ꮚ", "Ꮛ", "Ꮜ", "Ꮝ", "Ꮞ", "Ꮟ", "Ꮠ", "Ꮡ", "Ꮢ", "Ꮣ", "Ꮤ", "Ꮥ", "Ꮦ",
    "Ꮧ", "Ꮨ", "Ꮩ", "Ꮪ", "Ꮫ", "Ꮬ", "Ꮭ", "Ꮮ", "Ꮯ", "Ꮰ", "Ꮱ", "Ꮲ", "Ꮳ", "Ꮴ",
    "Ꮵ", "Ꮶ", "Ꮷ", "Ꮸ", "Ꮹ", "Ꮺ", "Ꮻ", "Ꮼ", "Ꮽ", "Ꮾ", "Ꮿ", "Ᏸ", "Ᏹ", "Ᏺ",
    "Ᏻ", "Ᏼ", "Ᏽ", "ᏸ", "ᏹ", "ᏺ", "ᏻ", "ᏼ", "ᏽ", "ᲀ", "ᲁ", "ᲂ", "ᲃ", "ᲄ",
    "ᲅ", "ᲆ", "ᲇ", "ᲈ", "Ᲊ", "ᲊ", "Ა", "Ბ", "Გ", "Დ", "Ე", "Ვ", "Ზ", "Თ",
    "Ი", "Კ", "Ლ", "Მ", "Ნ", "Ო", "Პ", "Ჟ", "Რ", "Ს", "Ტ", "Უ", "Ფ", "Ქ",
    "Ღ", "Ყ", "Შ", "Ჩ", "Ც", "Ძ", "Წ", "Ჭ", "Ხ", "Ჯ", "Ჰ", "Ჱ", "Ჲ", "Ჳ",
    "Ჴ", "Ჵ", "Ჶ", "Ჷ", "Ჸ", "Ჹ", "Ჺ", "Ჽ", "Ჾ", "Ჿ", "ᶀ", "ᶁ", "ᶂ", "ᶃ",
    "ᶄ", "ᶅ", "ᶆ", "ᶇ", "ᶈ", "ᶉ", "ᶊ", "ᶋ", "ᶌ", "ᶍ", "ᶎ", "ᶏ", "ᶐ", "ᶑ",
    "ᶒ", "ᶓ", "ᶔ", "ᶕ", "ᶖ", "ᶗ", "ᶘ", "ᶙ", "ᶚ", "Ẁ", "ẁ", "Ẃ", "ẃ", "Ẅ",
    "ẅ", "Ẇ", "ẇ", "Ẉ", "ẉ", "Ẋ", "ẋ", "Ẍ", "ẍ", "Ẏ", "ẏ", "Ẑ", "ẑ", "Ẓ",
    "ẓ", "Ẕ", "ẕ", "ẖ", "ẗ", "ẘ", "ẙ", "ẚ", "ẛ", "ẜ", "ẝ", "ẞ", "ẟ", "Ạ",
    "ạ", "Ả", "ả", "Ấ", "ấ", "Ầ", "ầ", "Ẩ", "ẩ", "Ẫ", "ẫ", "Ậ", "ậ", "Ắ",
    "ắ", "Ằ", "ằ", "Ẳ", "ẳ", "Ẵ", "ẵ", "Ặ", "ặ", "Ẹ", "ẹ", "Ẻ", "ẻ", "Ẽ",
    "ẽ", "Ế", "ế", "Ề", "ề", "Ể", "ể", "Ễ", "ễ", "Ệ", "ệ", "Ỉ", "ỉ", "Ị",
    "ị", "Ọ", "ọ", "Ỏ", "ỏ", "Ố", "ố", "Ồ", "ồ", "Ổ", "ổ", "Ỗ", "ỗ", "Ộ",
    "ộ", "Ớ", "ớ", "Ờ", "ờ", "Ở", "ở", "Ỡ", "ỡ", "Ợ", "ợ", "Ụ", "ụ", "Ủ",
    "ủ", "Ứ", "ứ", "Ừ", "ừ", "Ử", "ử", "Ữ", "ữ", "Ự", "ự", "Ỳ", "ỳ", "Ỵ",
    "ỵ", "Ỷ", "ỷ", "Ỹ", "ỹ", "Ỻ", "ỻ", "Ỽ", "ỽ", "Ỿ", "ỿ", "ᾀ", "ᾁ", "ᾂ",
    "ᾃ", "ᾄ", "ᾅ", "ᾆ", "ᾇ", "ᾈ", "ᾉ", "ᾊ", "ᾋ", "ᾌ", "ᾍ", "ᾎ", "ᾏ", "ᾐ",
    "ᾑ", "ᾒ", "ᾓ", "ᾔ", "ᾕ", "ᾖ", "ᾗ", "ᾘ", "ᾙ", "ᾚ", "ᾛ", "ᾜ", "ᾝ", "ᾞ",
    "ᾟ", "ᾠ", "ᾡ", "ᾢ", "ᾣ", "ᾤ", "ᾥ", "ᾦ", "ᾧ", "ᾨ", "ᾩ", "ᾪ", "ᾫ", "ᾬ",
    "ᾭ", "ᾮ", "ᾯ", "ᾰ", "ᾱ", "ᾲ", "ᾳ", "ᾴ", "ᾶ", "ᾷ", "Ᾰ", "Ᾱ", "Ὰ", "Ά",
    "ᾼ", "ι", "ῂ", "ῃ", "ῄ", "ῆ", "ῇ", "Ὲ", "Έ", "Ὴ", "Ή", "ῌ", "ῐ", "ῑ",
    "ῒ", "ΐ", "ῖ", "ῗ", "Ῐ", "Ῑ", "Ὶ", "Ί", "ῠ", "ῡ", "ῢ", "ΰ", "ῤ", "ῥ",
    "ῦ", "ῧ", "Ῠ", "Ῡ", "Ὺ", "Ύ", "Ῥ", "ῲ", "ῳ", "ῴ", "ῶ", "ῷ", "Ὸ", "Ό",
    "Ὼ", "Ώ", "ῼ", "Ↄ", "ↄ", "Ⓐ", "Ⓑ", "Ⓒ", "Ⓓ", "Ⓔ", "Ⓕ", "Ⓖ", "Ⓗ", "Ⓘ",
    "Ⓙ", "Ⓚ", "Ⓛ", "Ⓜ", "Ⓝ", "Ⓞ", "Ⓟ", "Ⓠ", "Ⓡ", "Ⓢ", "Ⓣ", "Ⓤ", "Ⓥ", "Ⓦ",
    "Ⓧ", "Ⓨ", "Ⓩ", "ⓐ", "ⓑ", "ⓒ", "ⓓ", "ⓔ", "ⓕ", "ⓖ", "ⓗ", "ⓘ", "ⓙ", "ⓚ",
    "ⓛ", "ⓜ", "ⓝ", "ⓞ", "ⓟ", "ⓠ", "ⓡ", "ⓢ", "ⓣ", "ⓤ", "ⓥ", "ⓦ", "ⓧ", "ⓨ",
    "ⓩ", "Ⲁ", "ⲁ", "Ⲃ", "ⲃ", "Ⲅ", "ⲅ", "Ⲇ", "ⲇ", "Ⲉ", "ⲉ", "Ⲋ", "ⲋ", "Ⲍ",
    "ⲍ", "Ⲏ", "ⲏ", "Ⲑ", "ⲑ", "Ⲓ", "ⲓ", "Ⲕ", "ⲕ", "Ⲗ", "ⲗ", "Ⲙ", "ⲙ", "Ⲛ",
    "ⲛ", "Ⲝ", "ⲝ", "Ⲟ", "ⲟ", "Ⲡ", "ⲡ", "Ⲣ", "ⲣ", "Ⲥ", "ⲥ", "Ⲧ", "ⲧ", "Ⲩ",
    "ⲩ", "Ⲫ", "ⲫ", "Ⲭ", "ⲭ", "Ⲯ", "ⲯ", "Ⲱ", "ⲱ", "Ⲳ", "ⲳ", "Ⲵ", "ⲵ", "Ⲷ",
    "ⲷ", "Ⲹ", "ⲹ", "Ⲻ", "ⲻ", "Ⲽ", "ⲽ", "Ⲿ", "ⲿ", "Ⳁ", "ⳁ", "Ⳃ", "ⳃ", "Ⳅ",
    "ⳅ", "Ⳇ", "ⳇ", "Ⳉ", "ⳉ", "Ⳋ", "ⳋ", "Ⳍ", "ⳍ", "Ⳏ", "ⳏ", "Ⳑ", "ⳑ", "Ⳓ",
    "ⳓ", "Ⳕ", "ⳕ", "Ⳗ", "ⳗ", "Ⳙ", "ⳙ", "Ⳛ", "ⳛ", "Ⳝ", "ⳝ", "Ⳟ", "ⳟ", "Ⳡ",
    "ⳡ", "Ⳣ", "ⳣ", "ⳤ", "Ⳬ", "ⳬ", "Ⳮ", "ⳮ", "Ⳳ", "ⳳ", "Ꚁ", "ꚁ", "Ꚃ", "ꚃ",
    "Ꚅ", "ꚅ", "Ꚇ", "ꚇ", "Ꚉ", "ꚉ", "Ꚋ", "ꚋ", "Ꚍ", "ꚍ", "Ꚏ", "ꚏ", "Ꚑ", "ꚑ",
    "Ꚓ", "ꚓ", "Ꚕ", "ꚕ", "Ꚗ", "ꚗ", "Ꚙ", "ꚙ", "Ꚛ", "ꚛ", "Ꞁ", "ꞁ", "Ꞃ", "ꞃ",
    "Ꞅ", "ꞅ", "Ꞇ", "ꞇ", "Ꞌ", "ꞌ", "Ɥ", "ꞎ", "Ꞑ", "ꞑ", "Ꞓ", "ꞓ", "ꞔ", "ꞕ",
    "Ꞗ", "ꞗ", "Ꞙ", "ꞙ", "Ꞛ", "ꞛ", "Ꞝ", "ꞝ", "Ꞟ", "ꞟ", "Ꞡ", "ꞡ", "Ꞣ", "ꞣ",
    "Ꞥ", "ꞥ", "Ꞧ", "ꞧ", "Ꞩ", "ꞩ", "Ɦ", "Ɜ", "Ɡ", "Ɬ", "Ɪ", "ꞯ", "Ʞ", "Ʇ",
    "Ʝ", "Ꭓ", "Ꞵ", "ꞵ", "Ꞷ", "ꞷ", "Ꞹ", "ꞹ", "Ꞻ", "ꞻ", "Ꞽ", "ꞽ", "Ꞿ", "ꞿ",
    "Ꟁ", "ꟁ", "Ꟃ", "ꟃ", "Ꞔ", "Ʂ", "Ᶎ", "Ꟈ", "ꟈ", "Ꟊ", "ꟊ", "Ɤ", "Ꟍ", "ꟍ",
    "꟎", "꟏", "Ꟑ", "ꟑ", "꟒", "ꟓ", "꟔", "ꟕ", "Ꟗ", "ꟗ", "Ꟙ", "ꟙ", "Ꟛ", "ꟛ",
    "Ƛ", "Ꟶ", "ꟶ", "ꟺ", "ꮀ", "ꮁ", "ꮂ", "ꮃ", "ꮄ", "ꮅ", "ꮆ", "ꮇ", "ꮈ", "ꮉ",
    "ꮊ", "ꮋ", "ꮌ", "ꮍ", "ꮎ", "ꮏ", "ꮐ", "ꮑ", "ꮒ", "ꮓ", "ꮔ", "ꮕ", "ꮖ", "ꮗ",
    "ꮘ", "ꮙ", "ꮚ", "ꮛ", "ꮜ", "ꮝ", "ꮞ", "ꮟ", "ꮠ", "ꮡ", "ꮢ", "ꮣ", "ꮤ", "ꮥ",
    "ꮦ", "ꮧ", "ꮨ", "ꮩ", "ꮪ", "ꮫ", "ꮬ", "ꮭ", "ꮮ", "ꮯ", "ꮰ", "ꮱ", "ꮲ", "ꮳ",
    "ꮴ", "ꮵ", "ꮶ", "ꮷ", "ꮸ", "ꮹ", "ꮺ", "ꮻ", "ꮼ", "ꮽ", "ꮾ", "ꮿ"}

Sigma == "Σ"

FinalSigma == "ς"

\* the Final_Sigma condition for the capital sigma at position i: a cased
\* letter comes before it and none after it, case-ignorable characters
\* skipped on both sides
IsFinalSigma(s, i) ==
  /\ \E j \in 1..(i - 1) :
       /\ s[j] \in CasedLetters
       /\ \A k \in (j + 1)..(i - 1) : s[k] \in CaseIgnorable
  /\ ~\E j \in (i + 1)..Len(s) :
        /\ s[j] \in CasedLetters
        /\ \A k \in (i + 1)..(j - 1) : s[k] \in CaseIgnorable

\* String.prototype.toLowerCase
toLowerCase(s) ==
  [i \in 1..Len(s) |->
     IF s[i] = Sigma /\ IsFinalSigma(s, i) THEN FinalSigma
     ELSE LowerChar(s[i])]

----------------------------------------------------------------------------
(* Regular expressions of the source, as node sequences, and the            *)
(* backtracking matcher of ECMAScript: alternatives are tried in priority   *)
(* order (greedy: longest first, lazy: shortest first) and the first        *)
(* complete match is taken.  Positions are 1-based; a match spans           *)
(* start..(end - 1).                                                        *)

LineTerminators == {"\r", "\n"}

\* the characters \s and trim take: tab, line feed, vertical tab, form feed,
\* carriage return, space, no-break space, U+1680 and U+FEFF; the other
\* white space of ECMAScript (U+2000-U+200A, U+2028, U+2029, U+202F, U+205F,
\* U+3000) cannot be written in a string of this module
WhiteSpace ==
  {" ", "\t", "\r", "\n", "\f", "", " ", " ", "﻿"}

\* one character of a literal, compared as the i flag compares when ci holds
Lit(c) == [t |-> "lit", c |-> c]
\* [...] : one character of the set
OneOf(S) == [t |-> "set", chars |-> S, neg |-> FALSE]
\* . : any character but a line terminator
Dot == [t |-> "set", chars |-> LineTerminators, neg |-> TRUE]
\* \s
Space == OneOf(WhiteSpace)
\* ^ under the m flag
Bol == [t |-> "bol"]
\* c*, c+ and c*? for one character node c
Many(c) == [t |-> "run", of |-> c, min |-> 0, greedy |-> TRUE]
Some(c) == [t |-> "run", of |-> c, min |-> 1, greedy |-> TRUE]
LazyMany(c) == [t |-> "run", of |-> c, min |-> 0, greedy |-> FALSE]
\* (?:x)* for a sequence of nodes x
Star(body) == [t |-> "star", body |-> body, greedy |-> TRUE]
\* x?
Opt(body) == [t |-> "opt", body |-> body]
\* \r?\n
CrLf == [t |-> "crlf"]
\* ( and ) of capturing group n
Open(n) == [t |-> "open", n |-> n]
Close(n) == [t |-> "close", n |-> n]

\* the characters of a literal word, one after the other
Word(w) == [t |-> "word", w |-> w]

NoMatch == [ok |-> FALSE, start |-> 0, end |-> 0, caps |-> <<>>]

NoCaps == [n \in 1..2 |-> <<0, 0>>]

LineStart(s, i) == i = 1 \/ (i - 1 <= Len(s) /\ s[i - 1] \in LineTerminators)

CharEq(c, e, ci) == IF ci THEN LowerChar(c) = LowerChar(e) ELSE c = e

NodeTakes(n, c, ci) ==
  IF n.t = "lit" THEN CharEq(c, n.c, ci) ELSE (c \in n.chars) # n.neg

WordAt(w, s, i, ci) ==
  /\ i + Len(w) - 1 <= Len(s)
  /\ \A k \in 1..Len(w) : CharEq(s[i + k - 1], w[k], ci)

\* number of consecutive characters from position i that node n takes
RunLen(n, s, i, ci) ==
  CHOOSE k \in 0..(Len(s) + 1 - i) :
    /\ \A j \in i..(i + k - 1) : NodeTakes(n, s[j], ci)
    /\ i + k <= Len(s) => ~NodeTakes(n, s[i + k], ci)

\* length of the \r?\n at position i (it matches in one way at most), or 0
CrLfAt(s, i) ==
  IF i + 1 <= Len(s) /\ s[i] = "\r" /\ s[i + 1] = "\n" THEN 2
  ELSE IF i <= Len(s) /\ s[i] = "\n" THEN 1
  ELSE 0

\* Match the node sequence at position i; the result of the first path of
\* the backtracking search that completes.  A quantified character node
\* tries its run lengths from the longest (greedy) or the shortest (lazy).
RECURSIVE Match(_, _, _, _, _)
RECURSIVE TryDown(_, _, _, _, _, _)
RECURSIVE TryUp(_, _, _, _, _, _)

TryDown(rest, s, lo, j, caps, ci) ==
  IF j < lo THEN NoMatch
  ELSE LET r == Match(rest, s, j, caps, ci)
       IN  IF r.ok THEN r ELSE TryDown(rest, s, lo, j - 1, caps, ci)

TryUp(rest, s, j, hi, caps, ci) ==
  IF j > hi THEN NoMatch
  ELSE LET r == Match(rest, s, j, caps, ci)
       IN  IF r.ok THEN r ELSE TryUp(rest, s, j + 1, hi, caps, ci)

Match(nodes, s, i, caps, ci) ==
  IF Len(nodes) = 0 THEN [ok |-> TRUE, start |-> 0, end |-> i, caps |-> caps]
  ELSE
    LET n == Head(nodes)
        rest == Tail(nodes)
    IN  CASE n.t \in {"lit", "set"} ->
               IF i <= Len(s) /\ NodeTakes(n, s[i], ci)
                 THEN Match(rest, s, i + 1, caps, ci)
                 ELSE NoMatch
          [] n.t = "word" ->
               IF WordAt(n.w, s, i, ci)
                 THEN Match(rest, s, i + Len(n.w), caps, ci)
                 ELSE NoMatch
          [] n.t = "crlf" ->
               IF CrLfAt(s, i) = 0 THEN NoMatch
               ELSE Match(rest, s, i + CrLfAt(s, i), caps, ci)
          [] n.t = "bol" ->
               IF LineStart(s, i) THEN Match(rest, s, i, caps, ci) ELSE NoMatch
          [] n.t = "opt" ->
               LET r == Match(n.body \o rest, s, i, caps, ci)
               IN  IF r.ok THEN r ELSE Match(rest, s, i, caps, ci)
          [] n.t = "run" ->
               IF RunLen(n.of, s, i, ci) < n.min THEN NoMatch
               ELSE IF n.greedy
                 THEN TryDown(rest, s, i + n.min, i + RunLen(n.of, s, i, ci),
                              caps, ci)
                 ELSE TryUp(rest, s, i + n.min, i + RunLen(n.of, s, i, ci),
                            caps, ci)
          [] n.t = "star" ->
               IF n.greedy
                 THEN LET r == Match(n.body \o <<n>> \o rest, s, i, caps, ci)
                      IN  IF r.ok THEN r ELSE Match(rest, s, i, caps, ci)
                 ELSE LET r == Match(rest, s, i, caps, ci)
                      IN  IF r.ok THEN r
                          ELSE Match(n.body \o <<n>> \o rest, s, i, caps, ci)
          [] n.t = "open" ->
               Match(rest, s, i, [caps EXCEPT ![n.n] = <<i, 0>>], ci)
          [] n.t = "close" ->
               Match(rest, s, i, [caps EXCEPT ![n.n] = <<@[1], i>>], ci)

\* RegExp.prototype.exec from position from: the leftmost start that matches
Search(re, s, from, ci) ==
  LET starts == {p \in from..(Len(s) + 1) : Match(re, s, p, NoCaps, ci).ok}
  IN  IF starts = {} THEN NoMatch
      ELSE LET p == CHOOSE p \in starts : \A q \in starts : p <= q
           IN  [Match(re, s, p, NoCaps, ci) EXCEPT !.start = p]

\* text of capturing group n of a match; the empty text when it took no part
Group(s, m, n) ==
  IF m.caps[n][2] = 0 THEN <<>> ELSE SubSeq(s, m.caps[n][1], m.caps[n][2] - 1)

\* the successive matches of a g-flagged expression, left to right
RECURSIVE AllMatches(_, _, _, _)
AllMatches(re, s, from, ci) ==
  LET m == Search(re, s, from, ci)
  IN  IF ~m.ok THEN <<>>
      ELSE <<m>> \o AllMatches(re, s,
                               IF m.end = m.start THEN m.end + 1 ELSE m.end, ci)

\* String.prototype.replace: s with match k replaced by reps[k]
RECURSIVE Splice(_, _, _, _, _)
Splice(s, matches, reps, k, from) ==
  IF k > Len(matches) THEN SubSeq(s, from, Len(s))
  ELSE SubSeq(s, from, matches[k].start - 1) \o reps[k]
       \o Splice(s, matches, reps, k + 1, matches[k].end)

\* replace of a first match only (an expression without the g flag)
ReplaceFirst(re, s, rep, ci) ==
  LET m == Search(re, s, 1, ci)
  IN  IF m.ok THEN Splice(s, <<m>>, <<rep>>, 1, 1) ELSE s

\* String.prototype.trim
RECURSIVE trimStart(_)
trimStart(s) ==
  IF Len(s) > 0 /\ s[1] \in WhiteSpace THEN trimStart(Tail(s)) ELSE s

RECURSIVE trimEnd(_)
trimEnd(s) ==
  IF Len(s) > 0 /\ s[Len(s)] \in WhiteSpace
    THEN trimEnd(SubSeq(s, 1, Len(s) - 1))
    ELSE s

trim(s) == trimEnd(trimStart(s))

----------------------------------------------------------------------------
(* Recipient resolution: transformRecipients, lines 106-150 *)

\* /\+.*?@/ of line 112
plusSignRe == <<Lit("+"), LazyMany(Dot), Lit("@")>>

\* origEmailKey.replace(/\+.*?@/, "@")
stripPlus(s) == ReplaceFirst(plusSignRe, s, <<"@">>, FALSE)

\* origEmailKeyOf without the removal of the "+tag" segment
origEmailKeyOfKeepsPlus(origEmail, cfg) == toLowerCase(origEmail)

\* lines 110-113; the one-element set binds the lower-cased address
origEmailKeyOf(origEmail, cfg) ==
  CHOOSE key \in
    {IF cfg.allowPlusSign THEN stripPlus(lower) ELSE lower :
       lower \in {toLowerCase(origEmail)}} : TRUE

\* lines 122-128: the part of the key from its last "@", empty without one
origEmailDomainOf(key) ==
  IF lastIndexOf(key, "@") = 0 THEN <<>>
  ELSE SubSeq(key, lastIndexOf(key, "@"), Len(key))

\* lines 122-128: the part of the key before its last "@"
origEmailUserOf(key) ==
  IF lastIndexOf(key, "@") = 0 THEN key
  ELSE SubSeq(key, 1, lastIndexOf(key, "@") - 1)

\* tierOfKey with the local part looked up before the domain
tierOfKeyUserFirst(key, map) ==
  IF hasOwnProperty(map, key, MethodKey) = "throws" THEN "throws"
  ELSE IF hasOwnProperty(map, key, MethodKey) = "true" THEN "full"
  ELSE IF /\ origEmailUserOf(key) # <<>>
          /\ hasOwnProperty(map, origEmailUserOf(key), MethodKey) = "true"
    THEN "user"
  ELSE IF /\ origEmailDomainOf(key) # <<>>
          /\ hasOwnProperty(map, origEmailDomainOf(key), MethodKey) = "true"
    THEN "domain"
  ELSE IF hasOwnProperty(map, <<"@">>, MethodKey) = "true" THEN "catchall"
  ELSE "none"

\* The branch of the if / else-if cascade taken for a lookup key,
\* lines 114-148, or "throws" when the first hasOwnProperty call, line 114,
\* throws
tierOfKey(key, map) ==
  IF hasOwnProperty(map, key, MethodKey) = "throws" THEN "throws"
  ELSE IF hasOwnProperty(map, key, MethodKey) = "true" THEN "full"
  ELSE IF /\ origEmailDomainOf(key) # <<>>
          /\ hasOwnProperty(map, origEmailDomainOf(key), MethodKey) = "true"
    THEN "domain"
  ELSE IF /\ origEmailUserOf(key) # <<>>
          /\ hasOwnProperty(map, origEmailUserOf(key), MethodKey) = "true"
    THEN "user"
  ELSE IF hasOwnProperty(map, <<"@">>, MethodKey) = "true" THEN "catchall"
  ELSE "none"

\* The rule key the branch taken reads
ruleKeyOf(key, tier) ==
  CASE tier = "full" -> key
    [] tier = "domain" -> origEmailDomainOf(key)
    [] tier = "user" -> origEmailUserOf(key)
    [] OTHER -> <<"@">>

\* The branch taken for one original recipient
tierOf(origEmail, cfg) ==
  CHOOSE t \in {tierOfKey(key, cfg.forwardMapping) :
                  key \in {origEmailKeyOf(origEmail, cfg)}} : TRUE

\* The destinations one original recipient contributes
contribution(origEmail, cfg) ==
  CHOOSE c \in
    {IF tierOfKey(key, cfg.forwardMapping) \in {"none", "throws"} THEN <<>>
     ELSE cfg.forwardMapping[
            ruleKeyOf(key, tierOfKey(key, cfg.forwardMapping))] :
       key \in {origEmailKeyOf(origEmail, cfg)}} : TRUE

\* forEachBody that leaves out a destination newRecipients already holds
forEachBodyDedup(acc, origEmail, cfg) ==
  CHOOSE next \in
    {IF t \in {"none", "throws"}
       THEN [acc EXCEPT !.tiers = Append(@, t)]
       ELSE [newRecipients |->
               acc.newRecipients \o
               SelectSeq(contribution(origEmail, cfg),
                         LAMBDA x : \A i \in DOMAIN acc.newRecipients :
                                      acc.newRecipients[i] # x),
             data |-> Put(acc.data, "originalRecipient", origEmail),
             tiers |-> Append(acc.tiers, t)] :
       t \in {tierOf(origEmail, cfg)}} : TRUE

\* One iteration of data.recipients.forEach: acc holds newRecipients, the
\* properties of data assigned so far, and the branch taken per recipient.
forEachBody(acc, origEmail, cfg) ==
  CHOOSE next \in
    {IF t \in {"none", "throws"}
       THEN [acc EXCEPT !.tiers = Append(@, t)]
       ELSE [newRecipients |->
               acc.newRecipients \o contribution(origEmail, cfg),
             data |-> Put(acc.data, "originalRecipient", origEmail),
             tiers |-> Append(acc.tiers, t)] :
       t \in {tierOf(origEmail, cfg)}} : TRUE

\* whether the callback of forEach threw: the loop ends there
threw(acc) == acc.tiers # <<>> /\ acc.tiers[Len(acc.tiers)] = "throws"

RECURSIVE forEach(_, _, _, _)
forEach(acc, recipients, i, cfg) ==
  IF i > Len(recipients) \/ threw(acc) THEN acc
  ELSE forEach(forEachBody(acc, recipients[i], cfg), recipients, i + 1, cfg)

\* The loop of transformRecipients over data.recipients, lines 107-150
resolve(d, cfg) ==
  forEach([newRecipients |-> <<>>,
           data |-> Put(d, "originalRecipients", d.recipients),
           tiers |-> <<>>],
          d.recipients, 1, cfg)

\* transformRecipients resolving with data also when nothing was resolved
transformRecipientsReturnsData(resolved) == "data"

\* What transformRecipients hands to the chain: the return value of
\* data.callback() when nothing was resolved, data otherwise (lines 152-164)
transformRecipientsReturn(resolved) ==
  IF Len(resolved) = 0 THEN "undefined" ELSE "data"

----------------------------------------------------------------------------
(* Header rewrite: processMessage, lines 241-324 *)

TabOrSpace == Opt(<<OneOf({"\t", " "})>>)

\* /^((?:.+\r?\n)*)(\r?\n(?:.*\s+)*)/m of line 242
splitRe ==
  <<Bol, Open(1), Star(<<Some(Dot), CrLf>>), Close(1),
    Open(2), CrLf, Star(<<Many(Dot), Some(Space)>>), Close(2)>>

\* /^reply-to:[\t ]?/im of line 247
replyToRe == <<Bol, Word(<<"r", "e", "p", "l", "y", "-", "t", "o", ":">>), TabOrSpace>>

\* /^from:[\t ]?(.*(?:\r?\n\s+.*)*\r?\n)/im of line 248
fromValueRe ==
  <<Bol, Word(<<"f", "r", "o", "m", ":">>), TabOrSpace,
    Open(1), Many(Dot), Star(<<CrLf, Some(Space), Many(Dot)>>), CrLf, Close(1)>>

\* /^from:[\t ]?(.*(?:\r?\n\s+.*)*)/gim of line 270
fromRe ==
  <<Bol, Word(<<"f", "r", "o", "m", ":">>), TabOrSpace,
    Open(1), Many(Dot), Star(<<CrLf, Some(Space), Many(Dot)>>), Close(1)>>

\* /<(.*)>/ of line 276
angleRe == <<Lit("<"), Open(1), Many(Dot), Close(1), Lit(">")>>

\* /^subject:[\t ]?(.*)/gim of line 295
subjectRe ==
  <<Bol, Word(<<"s", "u", "b", "j", "e", "c", "t", ":">>), TabOrSpace, Open(1), Many(Dot), Close(1)>>

\* /^to:[\t ]?(.*)/gim of line 304
toRe == <<Bol, Word(<<"t", "o", ":">>), TabOrSpace, Open(1), Many(Dot), Close(1)>>

\* /^return-path:[\t ]?(.*)\r?\n/gim of line 308
returnPathRe ==
  <<Bol, Word(<<"r", "e", "t", "u", "r", "n", "-", "p", "a", "t", "h", ":">>), TabOrSpace,
    Open(1), Many(Dot), Close(1), CrLf>>

\* /^sender:[\t ]?(.*)\r?\n/gim of line 311
senderRe ==
  <<Bol, Word(<<"s", "e", "n", "d", "e", "r", ":">>), TabOrSpace, Open(1), Many(Dot), Close(1), CrLf>>

\* /^message-id:[\t ]?(.*)\r?\n/gim of line 314
messageIdRe ==
  <<Bol, Word(<<"m", "e", "s", "s", "a", "g", "e", "-", "i", "d", ":">>), TabOrSpace,
    Open(1), Many(Dot), Close(1), CrLf>>

\* /^dkim-signature:[\t ]?.*\r?\n(\s+.*\r?\n)*/gim of line 320
dkimSignatureRe ==
  <<Bol, Word(<<"d", "k", "i", "m", "-", "s", "i", "g", "n", "a", "t", "u", "r", "e", ":">>), TabOrSpace, Many(Dot), CrLf,
    Star(<<Open(1), Some(Space), Many(Dot), CrLf, Close(1)>>)>>

\* header.replace(re, "") under the g and i flags
RemoveAll(re, header) ==
  LET ms == AllMatches(re, header, 1, TRUE)
  IN  Splice(header, ms, [k \in 1..Len(ms) |-> <<>>], 1, 1)

\* lines 242-243: the header block the rewrite works on
headerOf(emailData) ==
  LET match == Search(splitRe, emailData, 1, FALSE)
  IN  IF match.ok /\ Group(emailData, match, 1) # <<>>
        THEN Group(emailData, match, 1)
        ELSE emailData

\* lines 242 and 244: the text appended unchanged after the header block
bodyOf(emailData) ==
  LET match == Search(splitRe, emailData, 1, FALSE)
  IN  IF match.ok /\ Group(emailData, match, 2) # <<>>
        THEN Group(emailData, match, 2)
        ELSE <<>>

\* lines 248-249: the From value a new Reply-To header carries
replyToFrom(header) ==
  LET match == Search(fromValueRe, header, 1, TRUE)
  IN  IF match.ok THEN Group(header, match, 1) ELSE <<>>

\* addReplyTo that looks for a Reply-To header in this spelling only
addReplyToCaseSensitive(header) ==
  IF ~Search(replyToRe, header, 1, FALSE).ok /\ replyToFrom(header) # <<>>
    THEN header \o <<"R", "e", "p", "l", "y", "-", "T", "o", ":", " ">> \o replyToFrom(header)
    ELSE header

\* lines 247-264: a Reply-To header is appended unless one is present
addReplyTo(header) ==
  IF ~Search(replyToRe, header, 1, TRUE).ok /\ replyToFrom(header) # <<>>
    THEN header \o <<"R", "e", "p", "l", "y", "-", "T", "o", ":", " ">> \o replyToFrom(header)
    ELSE header

\* lines 271-288: the replacement of one From header
fromText(from, cfg, d) ==
  IF cfg.fromEmail # <<>>
    THEN <<"F", "r", "o", "m", ":", " ">> \o trim(ReplaceFirst(angleRe, from, <<>>, FALSE))
         \o <<" ", "<">> \o cfg.fromEmail \o <<">">>
    ELSE <<"F", "r", "o", "m", ":", " ">>
         \o ReplaceFirst(<<Lit(">")>>,
                         ReplaceFirst(<<Lit("<")>>, from, <<"a", "t", " ">>, FALSE),
                         <<>>, FALSE)
         \o <<" ", "<">>
         \o (IF Has(d, "originalRecipient") THEN d.originalRecipient
             ELSE <<"u", "n", "d", "e", "f", "i", "n", "e", "d">>)
         \o <<">">>

\* lines 269-290
rewriteFrom(header, cfg, d) ==
  LET ms == AllMatches(fromRe, header, 1, TRUE)
  IN  Splice(header, ms,
             [k \in 1..Len(ms) |-> fromText(Group(header, ms[k], 1), cfg, d)],
             1, 1)

\* prefixSubject that leaves a subject that already has the prefix
prefixSubjectOnce(header, cfg) ==
  IF cfg.subjectPrefix # <<>>
    THEN LET ms == AllMatches(subjectRe, header, 1, TRUE)
         IN  Splice(header, ms,
                    [k \in 1..Len(ms) |->
                       <<"S", "u", "b", "j", "e", "c", "t", ":", " ">>
                       \o (IF /\ Len(Group(header, ms[k], 1)) >= Len(cfg.subjectPrefix)
                              /\ SubSeq(Group(header, ms[k], 1), 1,
                                        Len(cfg.subjectPrefix)) = cfg.subjectPrefix
                             THEN <<>> ELSE cfg.subjectPrefix)
                       \o Group(header, ms[k], 1)],
                    1, 1)
    ELSE header

\* lines 293-300
prefixSubject(header, cfg) ==
  IF cfg.subjectPrefix # <<>>
    THEN LET ms == AllMatches(subjectRe, header, 1, TRUE)
         IN  Splice(header, ms,
                    [k \in 1..Len(ms) |->
                       <<"S", "u", "b", "j", "e", "c", "t", ":", " ">> \o cfg.subjectPrefix
                       \o Group(header, ms[k], 1)],
                    1, 1)
    ELSE header

Digits == <<"0", "1", "2", "3", "4", "5", "6", "7", "8", "9">>

IsDigit(c) == \E d \in 1..Len(Digits) : Digits[d] = c

DigitValue(c) == (CHOOSE d \in 1..Len(Digits) : Digits[d] = c) - 1

\* the replacement text String.prototype.replace makes of a string
\* replacement rep for match m of an expression with g capturing groups and
\* no named group: $$ is "$", $& the match, $' the text after it, $n and
\* $nn group n when it exists; any other "$" is kept.  The grave accent
\* cannot be written as a string of one character, so the texts of the model
\* never hold one and the pattern for the text before the match has no case
RECURSIVE GetSubstitution(_, _, _, _)
GetSubstitution(rep, s, m, g) ==
  IF rep = <<>> THEN <<>>
  ELSE IF rep[1] # "$" \/ Len(rep) = 1
    THEN <<rep[1]>> \o GetSubstitution(Tail(rep), s, m, g)
  ELSE IF rep[2] = "$"
    THEN <<"$">> \o GetSubstitution(SubSeq(rep, 3, Len(rep)), s, m, g)
  ELSE IF rep[2] = "&"
    THEN SubSeq(s, m.start, m.end - 1)
         \o GetSubstitution(SubSeq(rep, 3, Len(rep)), s, m, g)
  ELSE IF rep[2] = "'"
    THEN SubSeq(s, m.end, Len(s))
         \o GetSubstitution(SubSeq(rep, 3, Len(rep)), s, m, g)
  ELSE IF /\ IsDigit(rep[2]) /\ Len(rep) >= 3 /\ IsDigit(rep[3])
          /\ 10 * DigitValue(rep[2]) + DigitValue(rep[3]) \in 1..g
    THEN Group(s, m, 10 * DigitValue(rep[2]) + DigitValue(rep[3]))
         \o GetSubstitution(SubSeq(rep, 4, Len(rep)), s, m, g)
  ELSE IF IsDigit(rep[2]) /\ DigitValue(rep[2]) \in 1..g
    THEN Group(s, m, DigitValue(rep[2]))
         \o GetSubstitution(SubSeq(rep, 3, Len(rep)), s, m, g)
  ELSE <<"$">> \o GetSubstitution(Tail(rep), s, m, g)

\* lines 303-305: the replacement is a string, so its $ patterns are
\* expanded for each match; toRe has one capturing group
overrideTo(header, cfg) ==
  IF Has(cfg, "toEmail") /\ cfg.toEmail # <<>>
    THEN LET ms == AllMatches(toRe, header, 1, TRUE)
         IN  Splice(header, ms,
                    [k \in 1..Len(ms) |->
                       GetSubstitution(<<"T", "o", ":", " ">> \o cfg.toEmail,
                                       header, ms[k], 1)],
                    1, 1)
    ELSE header

\* lines 307-320
stripHeaders(header) ==
  CHOOSE out \in
    {RemoveAll(dkimSignatureRe, h3) : h3 \in
      {RemoveAll(messageIdRe, h2) : h2 \in
        {RemoveAll(senderRe, h1) : h1 \in
          {RemoveAll(returnPathRe, header)}}}} : TRUE

\* the header block processMessage builds, lines 246-320; each one-element
\* set binds the header text one statement leaves to the next statement
rewriteHeader(header, cfg, d) ==
  CHOOSE out \in
    {stripHeaders(h4) : h4 \in
      {overrideTo(h3, cfg) : h3 \in
        {prefixSubject(h2, cfg) : h2 \in
          {rewriteFrom(h1, cfg, d) : h1 \in {addReplyTo(header)}}}}} : TRUE

\* data.emailData as processMessage leaves it, line 322
processMessageText(emailData, cfg, d) ==
  CHOOSE out \in
    {rewriteHeader(header, cfg, d) \o body :
       header \in {headerOf(emailData)}, body \in {bodyOf(emailData)}} : TRUE

\* the data.log call of lines 247-264, when there is one
processMessageLog(emailData) ==
  LET header == headerOf(emailData)
  IN  IF Search(replyToRe, header, 1, TRUE).ok THEN <<>>
      ELSE IF replyToFrom(header) # <<>>
        THEN <<[level |-> "info", message |-> "Added Reply-To address of: "]>>
        ELSE <<[level |-> "info",
                message |-> "Reply-To address not added because From address was not properly extracted."]>>

----------------------------------------------------------------------------
(* Validation: parseEvent, lines 78-85 *)

\* the condition of lines 79-84, read left to right: "invalid" when it
\* holds, "valid" when it does not, "throws" when one of its two
\* hasOwnProperty calls throws
validation(event) ==
  IF Has(event, "isNull") THEN "invalid"
  ELSE IF hasOwnProperty(event, "Records", MethodName) # "true"
    THEN IF hasOwnProperty(event, "Records", MethodName) = "throws"
           THEN "throws" ELSE "invalid"
  ELSE IF Len(event.Records) # 1 THEN "invalid"
  ELSE IF hasOwnProperty(event.Records[1], "eventSource", MethodName) # "true"
    THEN IF hasOwnProperty(event.Records[1], "eventSource", MethodName) = "throws"
           THEN "throws" ELSE "invalid"
  ELSE IF event.Records[1].eventSource # "aws:ses" THEN "invalid"
  ELSE IF ~Has(event.Records[1], "eventVersion") THEN "invalid"
  ELSE IF event.Records[1].eventVersion # "1.0" THEN "invalid"
  ELSE "valid"

\* the if of lines 78-85 is entered
invalidSESMessage(event) == validation(event) = "invalid"

----------------------------------------------------------------------------
(* Inputs: events, rule tables, configurations, stored messages *)

\* original recipient addresses
Addresses ==
  {<<"u", "@", "d">>, <<"U", "+", "t", "@", "d">>, <<"v", "@", "d">>, <<"u", "@", "e">>, <<"v", "@", "e">>}

RecipientLists == SeqsUpTo(Addresses, MaxRecipients)

Mail == [messageId |-> <<"m", "1">>]

SesRecord(ses) ==
  [eventSource |-> "aws:ses", eventVersion |-> "1.0", ses |-> ses]

SesEvent(ses) == [Records |-> <<SesRecord(ses)>>]

OneRecipient == [mail |-> Mail, receipt |-> [recipients |-> <<<<"u", "@", "d">>>>]]

\* events parseEvent rejects: no event, no Records, not one record, no
\* eventSource, another source, no or another eventVersion
RejectedEvents ==
  {[isNull |-> TRUE],
   [version |-> "0"],
   [Records |-> <<>>],
   [Records |-> <<SesRecord(OneRecipient), SesRecord(OneRecipient)>>],
   [Records |-> <<[eventVersion |-> "1.0", ses |-> OneRecipient]>>],
   [Records |-> <<[eventSource |-> "aws:sns", eventVersion |-> "1.0",
                  ses |-> OneRecipient]>>],
   [Records |-> <<[eventSource |-> "aws:ses", ses |-> OneRecipient]>>],
   [Records |-> <<[eventSource |-> "aws:ses", eventVersion |-> "2.0",
                  ses |-> OneRecipient]>>]}

\* events of the expected envelope whose record lacks ses, ses.receipt or
\* ses.receipt.recipients
IncompleteEvents ==
  {[Records |-> <<[eventSource |-> "aws:ses", eventVersion |-> "1.0"]>>],
   SesEvent([mail |-> Mail]),
   SesEvent([mail |-> Mail, receipt |-> [action |-> "s3"]])}

\* events of the expected envelope, with or without a mail object, for every
\* recipient list
CompleteEvents ==
  {SesEvent([mail |-> Mail, receipt |-> [recipients |-> r]]) :
     r \in RecipientLists}
  \cup {SesEvent([receipt |-> [recipients |-> r]]) : r \in RecipientLists}

\* events with an own property named hasOwnProperty, on the event or on its
\* record
ShadowingEvents ==
  {[hasOwnProperty |-> "x"],
   [hasOwnProperty |-> "x", Records |-> <<SesRecord(OneRecipient)>>],
   [Records |-> <<[hasOwnProperty |-> "x", eventSource |-> "aws:ses",
                  eventVersion |-> "1.0", ses |-> OneRecipient]>>]}

Events ==
  RejectedEvents \cup IncompleteEvents \cup CompleteEvents
  \cup ShadowingEvents

\* rule keys: a full address, a domain, a mailbox name, the catch-all
RuleKeys == {<<"u", "@", "d">>, <<"@", "d">>, <<"u">>, <<"@">>}

Destinations(key) ==
  CASE key = <<"u", "@", "d">> -> <<"a@y", "b@y">>
    [] key = <<"@", "d">> -> <<"c@y">>
    [] key = <<"u">> -> <<"a@y">>
    [] OTHER -> <<"f@y", "a@y">>

\* every table over the rule keys, and two tables with an empty list
ForwardMappings ==
  {[k \in K |-> Destinations(k)] : K \in SUBSET RuleKeys}
  \cup {[k \in {<<"u", "@", "d">>, <<"@">>} |->
            IF k = <<"@">> THEN <<"f@y">> ELSE <<>>],
        [k \in {<<"@">>} |-> <<>>]}

\* a rule table with a key named hasOwnProperty
ShadowingMapping ==
  [k \in {MethodKey, <<"@">>} |->
     IF k = <<"@">> THEN <<"f@y">> ELSE <<"a@y">>]

\* an address with letters outside ASCII, its lookup key (the capital sigma
\* after a cased letter and before "@" takes its final form), and a rule
\* table with that key
GreekAddress == <<"Α", "Σ", "@", "D">>

GreekKey == <<"α", "ς", "@", "d">>

\* an address whose first letter is U+A7DA, and its lookup key, which
\* starts with U+A7DB
ExtendedAddress == <<"Ꟛ", "@", "d">>

ExtendedKey == <<"ꟛ", "@", "d">>

GreekMapping ==
  [k \in {GreekKey, ExtendedKey, <<"@">>} |->
     IF k = <<"@">> THEN <<"f@y">> ELSE <<"g@y">>]

Sender == <<"r", "@", "v">>

Config(fromEmail, subjectPrefix, allowPlusSign, forwardMapping) ==
  [fromEmail |-> fromEmail, subjectPrefix |-> subjectPrefix,
   emailBucket |-> <<"b">>, emailKeyPrefix |-> <<"p", "/">>,
   allowPlusSign |-> allowPlusSign, forwardMapping |-> forwardMapping]

\* the steps of handler, lines 385-394
defaultSteps ==
  <<"parseEvent", "transformRecipients", "fetchMessage", "processMessage",
    "sendMessage">>

\* a step list with an item that is not a function before position k
WithInvalidItem(k) ==
  SubSeq(defaultSteps, 1, k - 1) \o <<"invalid">>
  \o SubSeq(defaultSteps, k, Len(defaultSteps))

\* stored raw messages
Message1 ==
  <<"F", "r", "o", "m", ":", " ", "J", " ", "<", "j", "@", "x", ">", "\r", "\n",
    "S", "u", "b", "j", "e", "c", "t", ":", " ", "s", "\r", "\n", "\r", "\n", "B", " ", "b", "\r", "\n">>

Message2 == <<"S", "e", "n", "d", "e", "r", ":", " ", "s", "\n", "T", "o", ":", " ", "t", "\n", "\n", "b">>

\* a folded Sender header after To
Message3 ==
  <<"T", "o", ":", " ", "t", "\n", "S", "e", "n", "d", "e", "r", ":", " ",
    "s", "\n", " ", "x", "\n", "\n", "b", "\n">>

\* a folded From header whose value goes on in the second line
Message4 ==
  <<"F", "r", "o", "m", ":", " ", "J", "\r", "\n", " ", "K", " ", "<", "j",
    "@", "x", ">", "\r", "\n", "\r", "\n", "b", "\r", "\n">>

\* a Reply-To header in mixed case, a From header with a bare address,
\* and a body with a blank line and a line that looks like a header
Message5 ==
  <<"r", "e", "p", "l", "y", "-", "T", "O", ":", " ", "a", "\n", "F", "r",
    "o", "m", ":", " ", "j", "@", "x", "\n", "S", "u", "b", "j", "e", "c",
    "t", ":", " ", "s", "\n", "\n", "b", "\n", "\n", "F", "r", "o", "m", ":",
    " ", "z", "\n">>

\* a folded DKIM-Signature header and a Message-ID header
Message6 ==
  <<"F", "r", "o", "m", ":", " ", "J", " ", "<", "j", "@", "x", ">", "\n",
    "D", "K", "I", "M", "-", "S", "i", "g", "n", "a", "t", "u", "r", "e",
    ":", " ", "a", "\n", " ", "b", "\n", "M", "e", "s", "s", "a", "g", "e",
    "-", "I", "D", ":", " ", "m", "\n", "\n", "b", "\n">>

\* a header block and its blank line, no body
Message7 ==
  <<"R", "e", "t", "u", "r", "n", "-", "P", "a", "t", "h", ":", " ", "<",
    "r", ">", "\r", "\n", "S", "u", "b", "j", "e", "c", "t", ":", " ", "s",
    "\r", "\n", "\r", "\n">>

\* two Subject headers, a body that ends with a space
Message8 ==
  <<"S", "u", "b", "j", "e", "c", "t", ":", " ", "s", "\n", "S", "U", "B",
    "J", "E", "C", "T", ":", " ", "t", "\n", "\n", "b", " ">>

Messages ==
  {Message1, Message2, Message3, Message4, Message5, Message6, Message7,
   Message8}

SubjectPrefix == <<"P", " ">>

----------------------------------------------------------------------------
(* The run: handler and Promise.series, lines 384-432 *)

Log(level, message) == [level |-> level, message |-> message]

\* a chain whose last step is followed by no fulfilment handler
NextPcStops(i) == IF i + 1 > Len(steps) THEN "stopped" ELSE "step"

\* position after the step at idx fulfilled
NextPc(i) == IF i + 1 > Len(steps) THEN "then" ELSE "step"

AtStep(name) == pc = "step" /\ steps[idx] = name

\* the chain goes on to the next step with value v
Fulfil(v) ==
  /\ value' = v
  /\ idx' = idx + 1
  /\ pc' = NextPc(idx)
  /\ err' = err

\* a rejection that lets the chain go on to the next step
RejectGoesOn(message) ==
  /\ err' = message
  /\ idx' = idx + 1
  /\ pc' = NextPc(idx)
  /\ value' = value

\* a rejection after which the chain runs the failed step again
RejectRetries(message) ==
  /\ err' = err
  /\ pc' = "step"
  /\ UNCHANGED <<value, idx>>

\* a rejection that reaches the fulfilment handler of handler
RejectReportsSuccess(message) ==
  /\ err' = message
  /\ pc' = "then"
  /\ UNCHANGED <<value, idx>>

\* the chain is rejected: the remaining steps are skipped
Reject(message) ==
  /\ err' = message
  /\ pc' = "catch"
  /\ UNCHANGED <<value, idx>>

TypeError == "TypeError: Cannot read properties of undefined"

\* no second run of handler
NoRun == [pc |-> "none"]

Init ==
  /\ \/ /\ config \in {Config(f, <<>>, p, m) :
                         f \in {<<>>, Sender}, p \in BOOLEAN,
                         m \in ForwardMappings}
        /\ \/ /\ steps = defaultSteps
              /\ s3Object = Message1
              /\ data \in {[event |-> e] : e \in Events}
           \/ /\ steps = defaultSteps
              /\ s3Object = Message2
              /\ data = [event |-> SesEvent(OneRecipient)]
           \/ /\ steps = WithInvalidItem(3)
              /\ s3Object = Message1
              /\ data = [event |-> SesEvent(OneRecipient)]
     \/ /\ config = Config(<<>>, <<>>, TRUE, GreekMapping)
        /\ steps = defaultSteps
        /\ s3Object = Message1
        /\ data \in {[event |-> SesEvent([mail |-> Mail,
                                          receipt |-> [recipients |-> r]])] :
                        r \in SeqsUpTo({GreekAddress, ExtendedAddress,
                                        <<"v", "@", "d">>},
                                       MaxRecipients)}
     \/ /\ config = Config(<<>>, <<>>, TRUE, ShadowingMapping)
        /\ steps = defaultSteps
        /\ s3Object = Message1
        /\ data \in {[event |-> SesEvent([mail |-> Mail,
                                          receipt |-> [recipients |-> r]])] :
                        r \in SeqsUpTo({<<"u", "@", "d">>}, 1)}
  /\ idx = 1
  /\ pc = "step"
  /\ value = "data"
  /\ err = ""
  /\ invoked = <<>>
  /\ tierUsed = <<>>
  /\ newRecipients = <<>>
  /\ calls = <<>>
  /\ replies = <<>>
  /\ logs = <<>>
  /\ cb = <<>>
  /\ other = NoRun

\* parseEvent, lines 76-97
parseEvent ==
  /\ AtStep("parseEvent")
  /\ invoked' = Append(invoked, "parseEvent")
  /\ IF value = "undefined"
       THEN Reject(TypeError) /\ UNCHANGED <<data, logs>>
     ELSE IF validation(data.event) = "throws"
       THEN Reject(TypeError) /\ UNCHANGED <<data, logs>>
     ELSE IF invalidSESMessage(data.event)
       THEN /\ logs' = Append(logs, Log("error",
                         "parseEvent() received invalid SES message:"))
            /\ Reject("Error: Received invalid SES message.")
            /\ UNCHANGED data
     ELSE IF ~Has(data.event.Records[1], "ses")
       THEN Reject(TypeError) /\ UNCHANGED <<data, logs>>
     ELSE IF ~Has(data.event.Records[1].ses, "receipt")
       THEN \* data.email is assigned before ses.receipt.recipients is read
            /\ data' = IF Has(data.event.Records[1].ses, "mail")
                         THEN Put(data, "email", data.event.Records[1].ses.mail)
                         ELSE data
            /\ Reject(TypeError)
            /\ UNCHANGED logs
     ELSE /\ data' =
               LET ses == data.event.Records[1].ses
                   d1 == IF Has(ses, "mail") THEN Put(data, "email", ses.mail)
                         ELSE data
               IN  IF Has(ses.receipt, "recipients")
                     THEN Put(d1, "recipients", ses.receipt.recipients)
                     ELSE d1
          /\ Fulfil("data")
          /\ UNCHANGED logs
  /\ UNCHANGED <<config, other, steps, s3Object, tierUsed, newRecipients, calls, replies, cb>>

\* transformRecipients, lines 106-165
transformRecipients ==
  /\ AtStep("transformRecipients")
  /\ invoked' = Append(invoked, "transformRecipients")
  /\ IF value = "undefined" \/ ~Has(data, "recipients")
       THEN Reject(TypeError) /\ UNCHANGED <<data, tierUsed, newRecipients, logs, cb>>
     ELSE LET r == resolve(data, config)
          IN  /\ tierUsed' = r.tiers
              /\ newRecipients' = r.newRecipients
              /\ IF threw(r)
                   THEN /\ data' = r.data
                        /\ Reject(TypeError)
                        /\ UNCHANGED <<logs, cb>>
                   ELSE /\ IF Len(r.newRecipients) = 0
                             THEN /\ data' = r.data
                                  /\ logs' = Append(logs, Log("info",
                                       "Finishing process. No new recipients found for original destinations: "))
                                  /\ cb' = Append(cb, "success")
                             ELSE /\ data' = Put(r.data, "recipients", r.newRecipients)
                                  /\ UNCHANGED <<logs, cb>>
                        /\ Fulfil(transformRecipientsReturn(r.newRecipients))
  /\ UNCHANGED <<config, other, steps, s3Object, calls, replies>>

\* key of the stored message, lines 182-183 and 193
objectKey(d, cfg) == cfg.emailKeyPrefix \o d.email.messageId

\* fetchMessage up to its first await, lines 174-201
fetchMessage ==
  /\ AtStep("fetchMessage")
  /\ invoked' = Append(invoked, "fetchMessage")
  /\ IF value = "undefined" \/ ~Has(data, "email")
       THEN Reject(TypeError) /\ UNCHANGED <<logs, calls>>
       ELSE /\ logs' = Append(logs, Log("info", "Fetching email at s3://"))
            /\ calls' = Append(calls,
                 [op |-> "copy", Bucket |-> config.emailBucket,
                  CopySource |-> config.emailBucket \o <<"/">>
                                 \o objectKey(data, config),
                  Key |-> objectKey(data, config)])
            /\ pc' = "awaitCopy"
            /\ UNCHANGED <<value, idx, err>>
  /\ UNCHANGED <<config, other, steps, s3Object, data, tierUsed, newRecipients, replies, cb>>

\* the copy settles, lines 200-218
copyObjectSettles ==
  /\ pc = "awaitCopy"
  /\ \E outcome \in {"ok", "error"} :
       /\ replies' = Append(replies, [op |-> "copy", outcome |-> outcome])
       /\ IF outcome = "error"
            THEN /\ logs' = Append(logs,
                              Log("error", "copyObject() returned error:"))
                 /\ Reject("Error: Could not make readable copy of email.")
                 /\ UNCHANGED calls
            ELSE /\ calls' = Append(calls,
                      [op |-> "get", Bucket |-> config.emailBucket,
                       Key |-> objectKey(data, config)])
                 /\ pc' = "awaitGet"
                 /\ UNCHANGED <<value, idx, err, logs>>
  /\ UNCHANGED <<config, other, steps, s3Object, data, invoked, tierUsed, newRecipients, cb>>

\* the get settles, lines 217-229
getObjectSettles ==
  /\ pc = "awaitGet"
  /\ \E outcome \in {"ok", "error"} :
       /\ replies' = Append(replies, [op |-> "get", outcome |-> outcome])
       /\ IF outcome = "error"
            THEN /\ logs' = Append(logs,
                              Log("error", "getObject() returned error:"))
                 /\ Reject("Error: Failed to load message body from S3.")
            ELSE /\ pc' = "awaitBody"
                 /\ UNCHANGED <<value, idx, err, logs>>
  /\ UNCHANGED <<config, other, steps, s3Object, data, invoked, tierUsed, newRecipients, calls, cb>>

\* response.Body.transformToString() settles, lines 229-230
transformToStringSettles ==
  /\ pc = "awaitBody"
  /\ \E outcome \in {"ok", "error"} :
       /\ replies' = Append(replies, [op |-> "body", outcome |-> outcome])
       /\ IF outcome = "error"
            THEN Reject("Error: stream") /\ UNCHANGED data
            ELSE /\ data' = Put(data, "emailData", s3Object)
                 /\ Fulfil("data")
  /\ UNCHANGED <<config, other, steps, s3Object, invoked, tierUsed, newRecipients, calls, logs, cb>>

\* processMessage, lines 241-324
processMessage ==
  /\ AtStep("processMessage")
  /\ invoked' = Append(invoked, "processMessage")
  /\ IF value = "undefined" \/ ~Has(data, "emailData")
       THEN Reject(TypeError) /\ UNCHANGED <<data, logs>>
       ELSE /\ data' = Put(data, "emailData",
                           processMessageText(data.emailData, config, data))
            /\ logs' = logs \o processMessageLog(data.emailData)
            /\ Fulfil("data")
  /\ UNCHANGED <<config, other, steps, s3Object, tierUsed, newRecipients, calls, replies, cb>>

\* sendParams with the original recipients as destinations
sendParamsOriginal(d) ==
  LET p == [op |-> "send", Destinations |-> d.originalRecipients,
            RawMessage |-> [Data |-> d.emailData]]
  IN  IF Has(d, "originalRecipient")
        THEN Put(p, "Source", d.originalRecipient)
        ELSE p

\* the parameters of SendRawEmailCommand, lines 334-340
sendParams(d) ==
  LET p == [op |-> "send", Destinations |-> d.recipients,
            RawMessage |-> [Data |-> d.emailData]]
  IN  IF Has(d, "originalRecipient")
        THEN Put(p, "Source", d.originalRecipient)
        ELSE p

\* sendMessage up to its await, lines 333-355
sendMessage ==
  /\ AtStep("sendMessage")
  /\ invoked' = Append(invoked, "sendMessage")
  /\ IF \/ value = "undefined"
        \/ ~Has(data, "emailData")
        \/ ~Has(data, "originalRecipients")
        \/ ~Has(data, "recipients")
       THEN Reject(TypeError) /\ UNCHANGED <<logs, calls>>
       ELSE /\ logs' = Append(logs,
                         Log("info", "sendMessage: Sending email via SES."))
            /\ calls' = Append(calls, sendParams(data))
            /\ pc' = "awaitSend"
            /\ UNCHANGED <<value, idx, err>>
  /\ UNCHANGED <<config, other, steps, s3Object, data, tierUsed, newRecipients, replies, cb>>

\* the send settles, lines 354-371
sendRawEmailSettles ==
  /\ pc = "awaitSend"
  /\ \E outcome \in {"ok", "error"} :
       /\ replies' = Append(replies, [op |-> "send", outcome |-> outcome])
       /\ IF outcome = "error"
            THEN /\ logs' = Append(logs,
                              Log("error", "sendRawEmail() returned error."))
                 /\ Reject("Error: Email sending failed.")
            ELSE /\ logs' = Append(logs,
                              Log("info", "sendRawEmail() successful."))
                 /\ Fulfil("data")
  /\ UNCHANGED <<config, other, steps, s3Object, data, invoked, tierUsed, newRecipients, calls, cb>>

\* a step item that is not a function, lines 425-429
invalidPromiseItem ==
  /\ pc = "step"
  /\ steps[idx] \notin {"parseEvent", "transformRecipients", "fetchMessage",
                        "processMessage", "sendMessage"}
  /\ Reject("Error: Invalid promise item: ")
  /\ UNCHANGED <<config, other, steps, s3Object, data, invoked, tierUsed, newRecipients, calls,
                 replies, logs, cb>>

\* the fulfilment handler of handler, lines 405-411
processFinished ==
  /\ pc = "then"
  /\ IF value = "undefined"
       THEN Reject(TypeError) /\ UNCHANGED <<logs, cb>>
       ELSE /\ logs' = Append(logs,
                         Log("info", "Process finished successfully."))
            /\ cb' = Append(cb, "success")
            /\ pc' = "done"
            /\ UNCHANGED <<value, idx, err>>
  /\ UNCHANGED <<config, other, steps, s3Object, data, invoked, tierUsed, newRecipients, calls,
                 replies>>

\* a rejection handler that hands the message of the rejection to the caller
callbackErrorWithCause(message) == message

\* the error the rejection handler hands to the callback, line 419
callbackError(message) == "Error: Step returned error."

\* the rejection handler of handler, lines 412-420
stepReturnedError ==
  /\ pc = "catch"
  /\ logs' = Append(logs, Log("error", "Step returned error: "))
  /\ cb' = Append(cb, callbackError(err))
  /\ pc' = "done"
  /\ UNCHANGED <<config, other, steps, s3Object, data, idx, value, err, invoked,
                 tierUsed, newRecipients, calls, replies>>

Next ==
  \/ parseEvent
  \/ transformRecipients
  \/ fetchMessage
  \/ copyObjectSettles
  \/ getObjectSettles
  \/ transformToStringSettles
  \/ processMessage
  \/ sendMessage
  \/ sendRawEmailSettles
  \/ invalidPromiseItem
  \/ processFinished
  \/ stepReturnedError

Spec == Init /\ [][Next]_vars

\* the step called name runs: the first statement of each step's action
StepRuns(name) == AtStep(name) /\ invoked' = Append(invoked, name)

\* every step of the chain that can run does run, and every call that was
\* issued returns: the event loop runs each settled promise's handler.
\* transformRecipients and processMessage are enabled exactly when the chain
\* is at them and each of their steps appends their name to invoked, so
\* fairness of StepRuns is fairness of these two actions
LiveSpec ==
  /\ Spec
  /\ WF_vars(parseEvent)
  /\ WF_invoked(StepRuns("transformRecipients"))
  /\ WF_vars(fetchMessage)
  /\ WF_vars(copyObjectSettles)
  /\ WF_vars(getObjectSettles)
  /\ WF_vars(transformToStringSettles)
  /\ WF_invoked(StepRuns("processMessage"))
  /\ WF_vars(sendMessage)
  /\ WF_vars(sendRawEmailSettles)
  /\ WF_vars(invalidPromiseItem)
  /\ WF_vars(processFinished)
  /\ WF_vars(stepReturnedError)

----------------------------------------------------------------------------
(* processMessage on its own: the chain has reached processMessage with the
   text read from the store, and the step list applies it twice *)

\* a toEmail of the overrides: a replacement pattern and an address
ToEmails == {<<"$", "&">>, <<"o", "@", "y">>}

RewriteInit ==
  /\ config \in
       {Config(f, p, TRUE, [k \in {<<"@">>} |-> <<"f@y">>]) :
          f \in {<<>>, Sender}, p \in {<<>>, SubjectPrefix}}
       \cup {Put(Config(Sender, <<>>, TRUE, [k \in {<<"@">>} |-> <<"f@y">>]),
                 "toEmail", t) : t \in ToEmails}
  /\ s3Object \in Messages
  /\ steps = <<"processMessage", "processMessage">>
  /\ data = [emailData |-> s3Object,
             recipients |-> <<"f@y">>,
             originalRecipients |-> <<<<"u", "@", "d">>>>,
             originalRecipient |-> <<"u", "@", "d">>]
  /\ idx = 1
  /\ pc = "step"
  /\ value = "data"
  /\ err = ""
  /\ invoked = <<>>
  /\ tierUsed = <<"catchall">>
  /\ newRecipients = <<"f@y">>
  /\ calls = <<>>
  /\ replies = <<>>
  /\ logs = <<>>
  /\ cb = <<>>
  /\ other = NoRun

RewriteNext ==
  \/ processMessage
  \/ processFinished

RewriteSpec == RewriteInit /\ [][RewriteNext]_vars

----------------------------------------------------------------------------
(* Two runs of handler whose steps interleave.  The variables hold the run
   that executes; other holds the run that is suspended. *)

\* what one invocation of handler owns: var steps and var data (lines
\* 385-403), the position of its chain, the object stored under its message
\* key, and what its collaborators, its log and its caller have seen
Context ==
  [steps |-> steps, s3Object |-> s3Object, data |-> data, idx |-> idx,
   pc |-> pc, value |-> value, err |-> err, invoked |-> invoked,
   tierUsed |-> tierUsed, newRecipients |-> newRecipients, calls |-> calls,
   replies |-> replies, logs |-> logs, cb |-> cb]

RunRecipients(r) ==
  IF r = 1 THEN <<<<"u", "@", "d">>>> ELSE <<<<"v", "@", "e">>>>

RunMessage(r) == IF r = 1 THEN Message1 ELSE Message6

RunEvent(r) ==
  SesEvent([mail |-> [messageId |-> <<"m", IF r = 1 THEN "1" ELSE "2">>],
            receipt |-> [recipients |-> RunRecipients(r)]])

\* the context of invocation r when handler has built data, lines 385-403
RunStart(r) ==
  [steps |-> defaultSteps, s3Object |-> RunMessage(r),
   data |-> [event |-> RunEvent(r), context |-> [awsRequestId |-> r]],
   idx |-> 1, pc |-> "step", value |-> "data", err |-> "",
   invoked |-> <<>>, tierUsed |-> <<>>, newRecipients |-> <<>>,
   calls |-> <<>>, replies |-> <<>>, logs |-> <<>>, cb |-> <<>>]

TwoRunsInit ==
  /\ config \in {Config(f, <<>>, TRUE, m) :
                   f \in {<<>>, Sender},
                   m \in {[k \in K |-> Destinations(k)] :
                            K \in {{<<"u", "@", "d">>},
                                   {<<"u", "@", "d">>, <<"@">>}}}}
  /\ steps = RunStart(1).steps
  /\ s3Object = RunStart(1).s3Object
  /\ data = RunStart(1).data
  /\ idx = RunStart(1).idx
  /\ pc = RunStart(1).pc
  /\ value = RunStart(1).value
  /\ err = RunStart(1).err
  /\ invoked = RunStart(1).invoked
  /\ tierUsed = RunStart(1).tierUsed
  /\ newRecipients = RunStart(1).newRecipients
  /\ calls = RunStart(1).calls
  /\ replies = RunStart(1).replies
  /\ logs = RunStart(1).logs
  /\ cb = RunStart(1).cb
  /\ other = RunStart(2)

\* a data bundle shared by the invocations: a resumed run finds the bundle
\* of the run that executed last
resumedShared(own, current) == current

\* the data bundle a run finds when it resumes: its own, the var data of
\* its invocation (line 395)
resumed(own, current) == own

\* the run that executes is suspended at a step boundary or at an await,
\* and the other run goes on
switchRun ==
  /\ other # NoRun
  /\ other.pc # "done"
  /\ other' = Context
  /\ data' = resumed(other.data, data)
  /\ steps' = other.steps
  /\ s3Object' = other.s3Object
  /\ idx' = other.idx
  /\ pc' = other.pc
  /\ value' = other.value
  /\ err' = other.err
  /\ invoked' = other.invoked
  /\ tierUsed' = other.tierUsed
  /\ newRecipients' = other.newRecipients
  /\ calls' = other.calls
  /\ replies' = other.replies
  /\ logs' = other.logs
  /\ cb' = other.cb
  /\ UNCHANGED config

TwoRunsNext ==
  \/ parseEvent
  \/ transformRecipients
  \/ fetchMessage
  \/ copyObjectSettles
  \/ getObjectSettles
  \/ transformToStringSettles
  \/ processMessage
  \/ sendMessage
  \/ sendRawEmailSettles
  \/ processFinished
  \/ stepReturnedError
  \/ switchRun

TwoRunsSpec == TwoRunsInit /\ [][TwoRunsNext]_vars

----------------------------------------------------------------------------
(* Properties of the run, one per claim *)

\* the loop of transformRecipients has run to its end in this run
Resolved ==
  /\ Has(data, "originalRecipients")
  /\ \A i \in DOMAIN tierUsed : tierUsed[i] # "throws"

\* positions of the original recipients for which a rule was found
Matching == {i \in DOMAIN tierUsed : tierUsed[i] \notin {"none", "throws"}}

First(S) == CHOOSE i \in S : \A j \in S : i <= j

Last(S) == CHOOSE i \in S : \A j \in S : j <= i

ErrorSignal == "Error: Step returned error."

\* C1: in a run whose event passed validation and whose resolved list is
\* empty, the completion callback is never invoked with an error.
SkipNeverSignalsError ==
  (/\ Resolved
   /\ Has(data, "email")
   /\ data.originalRecipients # <<>>
   /\ newRecipients = <<>>) =>
    \A i \in DOMAIN cb : cb[i] # ErrorSignal

\* C2: the completion callback is invoked at most once in a run.
CallbackAtMostOnce == Len(cb) <= 1

\* C3: after resolution the chosen original recipient is the first recipient
\* in input order for which a rule was found, it is the Source of the send,
\* and it is unset when no recipient matched.
ChosenIsFirstMatch ==
  Resolved =>
    /\ Has(data, "originalRecipient") <=> Matching # {}
    /\ Matching # {} =>
         /\ data.originalRecipient = data.originalRecipients[First(Matching)]
         /\ \A i \in DOMAIN calls :
              calls[i].op = "send" =>
                calls[i].Source = data.originalRecipients[First(Matching)]

\* the tier the precedence full address > @domain > local part > catch-all
\* selects for a lookup key: the highest tier whose key the table holds
HighestTier(key, map) ==
  LET present ==
        [full |-> key \in DOMAIN map,
         domain |-> /\ origEmailDomainOf(key) # <<>>
                    /\ origEmailDomainOf(key) \in DOMAIN map,
         user |-> /\ origEmailUserOf(key) # <<>>
                  /\ origEmailUserOf(key) \in DOMAIN map,
         catchall |-> <<"@">> \in DOMAIN map]
  IN  IF present.full THEN "full"
      ELSE IF present.domain THEN "domain"
      ELSE IF present.user THEN "user"
      ELSE IF present.catchall THEN "catchall"
      ELSE "none"

\* the list the table holds for a tier of a lookup key
TierList(key, tier, map) ==
  CASE tier = "full" -> map[key]
    [] tier = "domain" -> map[origEmailDomainOf(key)]
    [] tier = "user" -> map[origEmailUserOf(key)]
    [] tier = "catchall" -> map[<<"@">>]
    [] OTHER -> <<>>

\* C4: for every original recipient the tier that contributes is the highest
\* tier, in the order full address > @domain > local part > catch-all, whose
\* key the table holds, and in a run with one recipient the resolved list is
\* the list of that tier alone.
TierPrecedence ==
  Resolved =>
    \A i \in DOMAIN tierUsed :
      \A key \in {origEmailKeyOf(data.originalRecipients[i], config)} :
        /\ tierUsed[i] = HighestTier(key, config.forwardMapping)
        /\ Len(tierUsed) = 1 =>
             newRecipients = TierList(key, tierUsed[i], config.forwardMapping)

\* the table has a key of every tier: the recipient u@d, whose full address,
\* domain and local part all have a key, took the full-address tier, and the
\* second recipient took a lower tier
TierPrecedenceCase ==
  /\ Resolved
  /\ Len(tierUsed) = 2
  /\ DOMAIN config.forwardMapping = RuleKeys
  /\ data.originalRecipients[1] = <<"u", "@", "d">>
  /\ tierUsed[1] = "full"
  /\ tierUsed[2] \in {"domain", "user", "catchall"}
  /\ pc = "done"

PlusAddress == <<"U", "+", "t", "@", "d">>

PlainKey == <<"u", "@", "d">>

\* C5: with plus-addressing enabled a recipient user+x@domain matches the
\* rule keyed user@domain, and the recorded original recipients and the
\* chosen original recipient are input addresses as received, never the
\* lookup key.
PlusSignOnlyInKey ==
  (Resolved /\ config.allowPlusSign) =>
    /\ data.originalRecipients =
         data.event.Records[1].ses.receipt.recipients
    /\ \A i \in DOMAIN tierUsed :
         (/\ data.originalRecipients[i] = PlusAddress
          /\ PlainKey \in DOMAIN config.forwardMapping) =>
           /\ tierUsed[i] = "full"
           /\ i = Last(Matching) => data.originalRecipient = PlusAddress
    /\ Has(data, "originalRecipient") =>
         \E i \in DOMAIN tierUsed :
           data.originalRecipient =
             data.event.Records[1].ses.receipt.recipients[i]

\* the only recipient is U+t@d, the table has the key u@d and nothing else,
\* and the send names U+t@d as its Source
PlusSignCase ==
  /\ Resolved
  /\ config.allowPlusSign
  /\ data.originalRecipients = <<PlusAddress>>
  /\ DOMAIN config.forwardMapping = {PlainKey}
  /\ data.originalRecipient = PlusAddress
  /\ calls # <<>>
  /\ calls[Len(calls)].op = "send"
  /\ calls[Len(calls)].Source = PlusAddress

\* the list the rule table holds for the tier taken for original recipient
\* i, empty when no tier was taken
Selected(i, cfg) ==
  CHOOSE list \in
    {TierList(key, tierUsed[i], cfg.forwardMapping) :
       key \in {origEmailKeyOf(data.originalRecipients[i], cfg)}} : TRUE

RECURSIVE Concatenation(_, _)
\* the lists selected for the first n original recipients, one after another
Concatenation(n, cfg) ==
  IF n = 0 THEN <<>>
  ELSE Concatenation(n - 1, cfg) \o Selected(n, cfg)

\* C6: the resolved list is the concatenation, in input order, of the list
\* selected for each original recipient, each in its rule order, without
\* deduplication; a recipient without a rule contributes nothing.
ResolvedIsConcatenation ==
  Resolved =>
    /\ newRecipients = Concatenation(Len(data.originalRecipients), config)
    /\ (\A i \in DOMAIN tierUsed : tierUsed[i] = "none") =>
         newRecipients = <<>>
    /\ newRecipients # <<>> => data.recipients = newRecipients

\* two recipients reached the same destination and it is listed twice
ResolvedTwiceCase ==
  /\ Resolved
  /\ Len(tierUsed) = 2
  /\ tierUsed[1] = "full"
  /\ tierUsed[2] = "catchall"
  /\ newRecipients = <<"a@y", "b@y", "f@y", "a@y">>
  /\ data.recipients = newRecipients

\* the shape the specification expects of an event: one record of the
\* expected source and version, a mail object and a non-empty recipient list
ExpectedShape(event) ==
  /\ validation(event) = "valid"
  /\ Has(event.Records[1], "ses")
  /\ Has(event.Records[1].ses, "mail")
  /\ Has(event.Records[1].ses, "receipt")
  /\ Has(event.Records[1].ses.receipt, "recipients")
  /\ event.Records[1].ses.receipt.recipients # <<>>

\* C7: for an event that is not of the expected shape, an event without a
\* mail object or with an empty recipient list included, no step after
\* parseEvent runs and the run ends with the error signal.
MalformedStopsAtValidate ==
  ~ExpectedShape(data.event) =>
    /\ \A i \in DOMAIN invoked : invoked[i] = "parseEvent"
    /\ calls = <<>>
    /\ pc = "done" => cb = <<ErrorSignal>>

\* C8: once a step has failed no later step is invoked and no external call
\* is issued, the failing step itself issues none when it fails, and the run
\* ends with the callback receiving the error signal.
FailureStopsTheRun ==
  [][/\ err' # "" => calls' = calls
     /\ err # "" => invoked' = invoked
     /\ (err' # "" /\ pc' = "done") =>
          (cb' # <<>> /\ cb'[Len(cb')] = ErrorSignal)]_vars

\* the copy failed: one call was issued, fetchMessage was the last step
\* invoked and the callback received the error signal
CopyFailedCase ==
  /\ pc = "done"
  /\ err = "Error: Could not make readable copy of email."
  /\ Len(calls) = 1
  /\ invoked[Len(invoked)] = "fetchMessage"
  /\ cb = <<ErrorSignal>>

\* C9: in a run whose resolution yields an empty list no external call is
\* issued: no store copy, no store get, no send.
EmptyResolutionNoCall ==
  (Resolved /\ newRecipients = <<>>) => calls = <<>>

\* a run with a mail object and a recipient without a rule has ended
EmptyResolutionCase ==
  /\ Resolved
  /\ newRecipients = <<>>
  /\ Has(data, "email")
  /\ tierUsed = <<"none">>
  /\ pc = "done"
  /\ calls = <<>>

\* C10: whenever a send is issued its destinations are non-empty and are the
\* resolved list of the run, and its message is the header rewrite of the
\* text fetched from the store.
SendCarriesResolved ==
  [][(calls' # calls /\ calls'[Len(calls')].op = "send") =>
       /\ calls'[Len(calls')].Destinations # <<>>
       /\ calls'[Len(calls')].Destinations = newRecipients
       /\ calls'[Len(calls')].RawMessage.Data =
            processMessageText(s3Object, config, data)]_vars

\* a send was issued in a run whose table maps a matched key to the empty
\* list
SendWithEmptyRuleCase ==
  /\ pc = "awaitSend"
  /\ calls[Len(calls)].op = "send"
  /\ \E i \in DOMAIN tierUsed :
       /\ tierUsed[i] # "none"
       /\ contribution(data.originalRecipients[i], config) = <<>>

\* the messages of the failures of validation, copy, get and send
StageFailures ==
  {"Error: Received invalid SES message.",
   "Error: Could not make readable copy of email.",
   "Error: Failed to load message body from S3.",
   "Error: Email sending failed."}

\* C11: the callback is invoked without an error only when resolution
\* produced no recipients or when a send was issued and succeeded; a run in
\* which validation, the copy, the get or the send failed never reports
\* success.
SuccessOnlyAfterSkipOrSend ==
  /\ \A i \in DOMAIN cb :
       cb[i] = "success" =>
         \/ Resolved /\ newRecipients = <<>>
         \/ /\ calls # <<>> /\ calls[Len(calls)].op = "send"
            /\ replies[Len(replies)] = [op |-> "send", outcome |-> "ok"]
  /\ err \in StageFailures => \A i \in DOMAIN cb : cb[i] # "success"

\* a run whose send succeeded has reported success, once
SuccessAfterSendCase ==
  /\ pc = "done"
  /\ cb = <<"success">>
  /\ newRecipients # <<>>
  /\ replies[Len(replies)] = [op |-> "send", outcome |-> "ok"]

\* C12: whatever failed (invalid event, copy, get, send, an invalid step
\* item), the error the callback receives is the same generic error.
ErrorIsGeneric ==
  /\ \A i \in DOMAIN cb : cb[i] \in {"success", ErrorSignal}
  /\ (pc = "done" /\ err # "") => cb[Len(cb)] = ErrorSignal

\* a run that failed on an invalid step item has handed the generic error
\* to the callback
InvalidItemCase ==
  /\ pc = "done"
  /\ err = "Error: Invalid promise item: "
  /\ cb = <<ErrorSignal>>

\* C19: the external calls of a run are a prefix of copy, get, send, each
\* issued at most once; the get is issued only after the copy succeeded and
\* the send only after the get succeeded.
CallsInOrder ==
  /\ \E n \in 0..3 :
       [i \in 1..Len(calls) |-> calls[i].op]
         = SubSeq(<<"copy", "get", "send">>, 1, n)
  /\ Len(calls) >= 2 => replies[1] = [op |-> "copy", outcome |-> "ok"]
  /\ Len(calls) >= 3 => replies[2] = [op |-> "get", outcome |-> "ok"]

\* a run has issued the three calls and ended
ThreeCallsCase ==
  /\ pc = "done"
  /\ Len(calls) = 3
  /\ calls[3].op = "send"

\* C20: every run completes: the completion callback is eventually invoked.
RunCompletes == <>(pc = "done" /\ cb # <<>>)

\* a run has ended with its callback invoked after all its calls returned
CompletedCase ==
  /\ pc = "done"
  /\ cb # <<>>
  /\ Len(replies) = 4

----------------------------------------------------------------------------
(* Properties of the header rewrite: a text as lines *)

\* end of the line that starts at position i: its "\n", or the end of text
LineEnd(text, i) ==
  IF \E j \in i..Len(text) : text[j] = "\n"
    THEN CHOOSE j \in i..Len(text) :
           text[j] = "\n" /\ \A k \in i..(j - 1) : text[k] # "\n"
    ELSE Len(text)

RECURSIVE LinesFrom(_, _)
\* the lines of a text from position i on, each with its line terminator
LinesFrom(text, i) ==
  IF i > Len(text) THEN <<>>
  ELSE <<SubSeq(text, i, LineEnd(text, i))>>
       \o LinesFrom(text, LineEnd(text, i) + 1)

IsBlank(line) == line \in {<<"\n">>, <<"\r", "\n">>}

\* number of lines before the first blank line: all lines when there is none
HeaderLength(lines) ==
  IF \E i \in DOMAIN lines : IsBlank(lines[i])
    THEN (CHOOSE i \in DOMAIN lines :
            IsBlank(lines[i]) /\ \A j \in 1..(i - 1) : ~IsBlank(lines[j])) - 1
    ELSE Len(lines)

\* the lines of the header block of a text
HeaderLines(text) ==
  SubSeq(LinesFrom(text, 1), 1, HeaderLength(LinesFrom(text, 1)))

RECURSIVE Joined(_)
Joined(lines) ==
  IF lines = <<>> THEN <<>> ELSE Head(lines) \o Joined(Tail(lines))

\* all text after the first blank line
TextAfterBlankLine(text) ==
  Joined(SubSeq(LinesFrom(text, 1), HeaderLength(LinesFrom(text, 1)) + 2,
                Len(LinesFrom(text, 1))))

\* the line is a header of the given (lower-case) name
IsHeader(line, name) ==
  /\ Len(line) >= Len(name)
  /\ toLowerCase(SubSeq(line, 1, Len(name))) = name

IsContinuation(line) == line # <<>> /\ line[1] \in {" ", "\t"}

\* C13: the rewrite leaves all text after the first blank line unchanged.
BodyUnchanged ==
  invoked # <<>> =>
    TextAfterBlankLine(data.emailData) = TextAfterBlankLine(s3Object)

\* names of the headers that are not forwarded
StrippedNames ==
  {<<"r", "e", "t", "u", "r", "n", "-", "p", "a", "t", "h", ":">>,
   <<"s", "e", "n", "d", "e", "r", ":">>,
   <<"m", "e", "s", "s", "a", "g", "e", "-", "i", "d", ":">>,
   <<"d", "k", "i", "m", "-", "s", "i", "g", "n", "a", "t", "u", "r", "e",
     ":">>}

IsStripped(line) == \E name \in StrippedNames : IsHeader(line, name)

\* the line at position i belongs to a header that is not forwarded: it is
\* such a header, or a continuation line of one
RECURSIVE InStripped(_, _)
InStripped(lines, i) ==
  \/ IsStripped(lines[i])
  \/ /\ IsContinuation(lines[i])
     /\ i > 1
     /\ InStripped(lines, i - 1)

\* C14: after the rewrite the header block holds no Return-Path, Sender,
\* Message-ID or DKIM-Signature header and no continuation line of one.
StrippedWithContinuations ==
  invoked # <<>> =>
    /\ \A i \in DOMAIN HeaderLines(data.emailData) :
         ~IsStripped(HeaderLines(data.emailData)[i])
    /\ \A i \in DOMAIN HeaderLines(s3Object) :
         InStripped(HeaderLines(s3Object), i) =>
           \A j \in DOMAIN HeaderLines(data.emailData) :
             HeaderLines(data.emailData)[j] # HeaderLines(s3Object)[i]

FromName == <<"f", "r", "o", "m", ":">>

\* the value of a header line: the text after the name and one optional
\* blank, without the line terminator
ValueOf(line, name) ==
  LET from == IF Len(line) > Len(name) /\ line[Len(name) + 1] \in {" ", "\t"}
                THEN Len(name) + 2 ELSE Len(name) + 1
      to == IF Len(line) >= 2 /\ SubSeq(line, Len(line) - 1, Len(line))
                                   = <<"\r", "\n">>
              THEN Len(line) - 2
            ELSE IF line # <<>> /\ line[Len(line)] = "\n" THEN Len(line) - 1
            ELSE Len(line)
  IN  SubSeq(line, from, to)

Contains(text, part) ==
  \E i \in 1..(Len(text) - Len(part) + 1) :
    SubSeq(text, i, i + Len(part) - 1) = part

\* the address of a From value: the text in angle brackets, or the value
\* when it has none
AddressOf(v) ==
  IF (\E i \in DOMAIN v : v[i] = "<") /\ (\E i \in DOMAIN v : v[i] = ">")
    THEN SubSeq(v, (CHOOSE i \in DOMAIN v :
                      v[i] = "<" /\ \A j \in 1..(i - 1) : v[j] # "<") + 1,
                lastIndexOf(v, ">") - 1)
    ELSE v

\* the value of the header at position i with its continuation lines
RECURSIVE Folded(_, _)
Folded(lines, i) ==
  IF i > Len(lines) \/ ~IsContinuation(lines[i]) THEN <<>>
  ELSE lines[i] \o Folded(lines, i + 1)

FromLines(lines) == {i \in DOMAIN lines : IsHeader(lines[i], FromName)}

\* C15: with a sender address configured, every From header of the input is
\* replaced by one single-line From header that ends with the configured
\* address in angle brackets, has no continuation line and does not carry
\* the address of the original sender.
FromIsSingleLine ==
  (invoked # <<>> /\ config.fromEmail # <<>>) =>
    LET in == HeaderLines(s3Object)
        out == HeaderLines(data.emailData)
    IN  /\ Cardinality(FromLines(out)) = Cardinality(FromLines(in))
        /\ \A j \in FromLines(out) :
             /\ j < Len(out) => ~IsContinuation(out[j + 1])
             /\ Contains(out[j], <<" ", "<">> \o config.fromEmail \o <<">">>)
             /\ \A i \in FromLines(in) :
                  ~Contains(ValueOf(out[j], FromName),
                            AddressOf(ValueOf(in[i] \o Folded(in, i + 1),
                                              FromName)))

ReplyToName == <<"r", "e", "p", "l", "y", "-", "t", "o", ":">>

\* number of Reply-To headers in the header block of a text
ReplyToCount(text) ==
  Cardinality({i \in DOMAIN HeaderLines(text) :
                 IsHeader(HeaderLines(text)[i], ReplyToName)})


SubjectName == <<"s", "u", "b", "j", "e", "c", "t", ":">>

SubjectLines(text) ==
  SelectSeq(HeaderLines(text), LAMBDA line : IsHeader(line, SubjectName))


----------------------------------------------------------------------------
(* Properties of two interleaved runs *)

\* what resolution yields for invocation r when it runs alone
AloneResolved(r) == resolve([recipients |-> RunRecipients(r)], config)

\* the send invocation r issues when it runs alone
AloneSend(r) ==
  CHOOSE send \in
    {[op |-> "send",
      Destinations |-> res.newRecipients,
      Source |-> res.data.originalRecipient,
      RawMessage |-> [Data |-> processMessageText(text, cfg, res.data)]] :
       res \in {AloneResolved(r)}, text \in {RunMessage(r)},
       cfg \in {config}} : TRUE

\* what the caller of invocation r receives when it runs alone and its
\* collaborators answer as in replies
AloneOutcome(r, answers) ==
  IF AloneResolved(r).newRecipients = <<>> THEN <<"success", ErrorSignal>>
  ELSE IF \A i \in DOMAIN answers : answers[i].outcome = "ok"
    THEN <<"success">>
  ELSE <<ErrorSignal>>

\* a context holds what its invocation holds when it runs alone
AsAlone(c) ==
  \A r \in {c.data.context.awsRequestId} :
    /\ c.data.event = RunEvent(r)
    /\ c.s3Object = RunMessage(r)
    /\ \A i \in DOMAIN c.calls :
         /\ c.calls[i].op = "send" => c.calls[i] = AloneSend(r)
         /\ c.calls[i].op # "send" =>
              c.calls[i].Key =
                config.emailKeyPrefix \o RunEvent(r).Records[1].ses.mail.messageId
    /\ c.pc = "done" => c.cb = AloneOutcome(r, c.replies)

IndependentRuns == AsAlone(Context) /\ AsAlone(other)

\* C18: when the steps of two runs interleave, each run's send and callback
\* outcome are those of the run alone, each run keeps its own context, and
\* no step changes the shared configuration.
RunsDoNotInterfere ==
  [][config' = config]_vars /\ []IndependentRuns

\* both runs are suspended in a call: one in its send, the other in its get
InterleavedCase ==
  /\ pc = "awaitSend"
  /\ other.pc = "awaitGet"
  /\ data.context.awsRequestId = 2
  /\ calls[Len(calls)] = AloneSend(2)

====
